---- MODULE Spec2Model ----
(***************************************************************************)
(* Entity-parameter binding and query classification engine of            *)
(* koalla05/Automative-SpaCy.                                              *)
(*                                                                         *)
(*   Spec          the rule-based classifier of                            *)
(*                 pipeline/processors/llm_processor.py, driven as its     *)
(*                 __main__ self-test drives it (status, then intent)      *)
(*   SpecPipeline  IPGPipeline.process: parameter_extractor's              *)
(*                 process_question (entities, parameters, segment-aware   *)
(*                 routing), then question type, rule-based bindings and   *)
(*                 build_final_routing                                     *)
(*   SpecBinder    the same steps on longer queries of two models, a      *)
(*                 parameter and a conjunction                             *)
(*   SpecSegments  split_into_segments of parameter_extractor.py applied   *)
(*                 to raw strings, blanks and separators anywhere          *)
(*   SpecMatcher   find_parameters applied to texts of glossary synonyms   *)
(*                 that nest and repeat                                    *)
(*   SpecSuffix    find_parameters applied to glossary synonyms with and   *)
(*                 without their plural endings                            *)
(*   SpecOccurrences  find_parameters applied to texts that name one key   *)
(*                 several times, near and far apart                       *)
(*   SpecRegistry  core/normalization: the two registry files, their       *)
(*                 cached loaders and the lookups that go through them     *)
(*   SpecConcurrent  request threads that use the cached loaders at the    *)
(*                 same time                                               *)
(*   SpecClean     clean_canon_file of clean_canon_models.py applied to    *)
(*                 registry files, and normalize_model on the file it      *)
(*                 leaves                                                  *)
(*   SpecTraining  ModelTrainingWorkflow of training_workflow.py: runs of  *)
(*                 run() on one object, every file operation able to fail  *)
(*   SpecLLM       IPGPipeline.process with the LLMProcessor of            *)
(*                 llm_processor.py: the reply of the language model is    *)
(*                 parsed by parse_ipg_output and routed by                *)
(*                 build_final_routing                                     *)
(*                                                                         *)
(* A query text is a sequence of items joined by single spaces; the        *)
(* character offsets the code works with are computed from the joined      *)
(* string.  Confidences are hundredths (95 is 0.95).                       *)
(***************************************************************************)
EXTENDS Integers, Sequences, FiniteSets, TLC

VARIABLES
    mode,               \* which driver owns the state: "classify", "pipeline", ...
    pc,                 \* position of the driver: "input", "extracted", "done", "raised"
    text,               \* the query, item by item (a raw string for SpecSegments)
    extracted_entities, \* [manufacturer, model, equipment_type, parameters]
    params_extracted,   \* process_question: the result of find_parameters
    extract_routing,    \* process_question: the result of build_routing
    status,             \* determine_status result
    intent,             \* determine_intent_logic result
    question_type,      \* IPGPipeline.process: detect_question_type result
    param_bindings,     \* build_param_bindings_logic result
    routing,            \* routing decision
    text_segments,      \* split_into_segments result
    sorted_results,     \* find_parameters: results after results.sort
    canon_file,         \* data/canon_models.txt on disk
    metadata_file,      \* data/equipment_models_named.csv on disk
    canon_cache,        \* lru_cache of load_canonical_models
    metadata_cache,     \* lru_cache of load_model_metadata
    lookup,             \* the last call into core/normalization and its outcome
    requests,           \* concurrent requests: each thread's place in a cached loader
    registry_log,       \* per loader: runs of its body and writes of its cache
    raw_text,           \* the reply of the language model, line by line
    canon_backup,       \* canon_models.txt.backup_<timestamp> of clean_canon_file
    training_disk,      \* model directory, temporary model directory and backups
    workflow            \* ModelTrainingWorkflow: backup_path and the step of run()

\* the state of the request drivers, and of the drivers of single functions
request_vars == <<extracted_entities, params_extracted, extract_routing,
                  status, intent, question_type, param_bindings, routing>>

\* the state of the concurrent requests, and of the language-model reply and
\* the maintenance scripts
thread_vars == <<requests, registry_log>>

script_vars == <<raw_text, canon_backup, training_disk, workflow>>

registry_vars == <<canon_file, metadata_file, canon_cache, metadata_cache, lookup,
                   thread_vars, script_vars>>

function_vars == <<text_segments, sorted_results, registry_vars>>

vars == <<mode, pc, text, request_vars, function_vars>>

-----------------------------------------------------------------------------
(* Bounds *)

MaxWords == 3
MaxModels == 3
MaxParams == 3
MaxQueryWords == 3
MaxPieces == 5
MaxMatcherWords == 3
MaxBinderWords == 5
MaxSuffixWords == 2
MaxOccurrenceWords == 4
MaxRequests == 2
MaxLLMLines == 3
MaxRuns == 2

-----------------------------------------------------------------------------
(* Values *)

\* Python None
None == "None"

\* value of a result that has not been computed yet
Unset == "unset"

\* a filler word longer than the 30 characters the action/3-phase pattern spans
LongWord == "characteristicsofthebatterymodule"

\* the words query texts are made of; every one is a run of \w characters
Vocabulary ==
    {LongWord, "Compatible", "parallel", "work", "with", "connect", "3phase"}

\* a glossary synonym with a conjunction inside, as "контроль напруги і
\* частоти мережі" of grid_monitoring has
CrossingSynonym == "voltage or frequency"

\* the items the queries of the pipeline are made of
QueryVocabulary ==
    {"US5000", "A48100", "XYZ", "Old", "Deye", "inverter", "weight", "noise",
     "and", CrossingSynonym, "Compatible", "parallel"}

\* two synonyms with a shorter synonym of another key inside, written with
\* blanks and with underscores, as "full power mppt voltage range" and
\* "full_power_mppt_voltage_range" have "mppt voltage range" and
\* "mppt_voltage_range" at offset 11
OuterSynonym == "full power mppt range"

InnerSynonym == "mppt range"

OuterWord == "full_power_mppt_range"

InnerWord == "mppt_range"

\* the items the texts given to find_parameters alone are made of: the nested
\* synonyms, a synonym with a plural ending and the same without it, a
\* synonym that two keys list, and a word of no synonym
MatcherVocabulary ==
    {OuterSynonym, InnerSynonym, OuterWord, InnerWord,
     "certifications", "certification", "battery_voltage_range", "XYZ"}

\* a synonym of six words with a plural ending, the words of an earlier key's
\* synonym among them, as "максимальна короткочасна потужність при автономній
\* роботі" of offgrid_peak_power has those of "максимальна потужність" of
\* max_ac_output_power_w; and the same synonym without its ending
PeakSynonym == "max peak power at offgrid works"

PeakStripped == "max peak power at offgrid work"

PowerSynonym == "max power"

\* the items of the texts that try the suffixes: synonyms with an ending, the
\* same without it, and synonyms without one
SuffixVocabulary ==
    {PeakSynonym, PeakStripped, PowerSynonym, InnerSynonym, "certifications",
     "certification", "battery_voltage_range", "XYZ"}

\* a word of no synonym that puts more than 50 characters between the starts
\* of the synonyms before and after it
FarFiller == "characteristicsofthebatterymoduleinthecabinet"

\* the items of the texts that name one key several times, near and far apart
OccurrenceVocabulary == {"weight", "noise", FarFiller}

\* every item of a text that is split into words
ItemVocabulary ==
    QueryVocabulary \cup MatcherVocabulary \cup SuffixVocabulary \cup OccurrenceVocabulary

Range(s) == {s[i] : i \in DOMAIN s}

RECURSIVE Concat(_)
Concat(seqs) == IF seqs = <<>> THEN <<>> ELSE Head(seqs) \o Concat(Tail(seqs))

\* all sequences over S of length at most n
RECURSIVE SeqsUpTo(_, _)
SeqsUpTo(S, n) ==
    IF n = 0 THEN {<<>>}
    ELSE LET shorter == SeqsUpTo(S, n - 1)
         IN shorter \cup {Append(s, x) : s \in {t \in shorter : Len(t) = n - 1}, x \in S}

-----------------------------------------------------------------------------
(* str.lower() and str.strip(), character by character *)

UpperLetters == "ABCDEFGHIJKLMNOPQRSTUVWXYZ"

LowerLetters == "abcdefghijklmnopqrstuvwxyz"

\* the characters of a string
Chars(s) == {SubSeq(s, i, i) : i \in 1..Len(s)}

LowerOfChar ==
    [c \in Chars(UpperLetters) |->
        LET i == CHOOSE i \in 1..26 : SubSeq(UpperLetters, i, i) = c
        IN SubSeq(LowerLetters, i, i)]

LowerChar(c) == IF c \in DOMAIN LowerOfChar THEN LowerOfChar[c] ELSE c

\* str.lower(): every character lowered, the halves joined
RECURSIVE LowerWord(_)
LowerWord(w) ==
    IF Len(w) = 0 THEN ""
    ELSE IF Len(w) = 1 THEN LowerChar(w)
    ELSE LowerWord(SubSeq(w, 1, Len(w) \div 2))
             \o LowerWord(SubSeq(w, Len(w) \div 2 + 1, Len(w)))

\* mutant of Strip: only the leading blanks go
RECURSIVE strip_leading(_)
strip_leading(w) ==
    IF Len(w) = 0 THEN w
    ELSE IF SubSeq(w, 1, 1) = " " THEN strip_leading(SubSeq(w, 2, Len(w)))
    ELSE w

RECURSIVE Strip(_)
Strip(w) ==
    IF Len(w) = 0 THEN w
    ELSE IF SubSeq(w, 1, 1) = " " THEN Strip(SubSeq(w, 2, Len(w)))
    ELSE IF SubSeq(w, Len(w), Len(w)) = " " THEN Strip(SubSeq(w, 1, Len(w) - 1))
    ELSE w

\* the words of a string, separated by spaces; word is the word in progress
RECURSIVE SplitWords(_, _)
SplitWords(s, word) ==
    LET spaces == {i \in 1..Len(s) : SubSeq(s, i, i) = " "}
        first == CHOOSE i \in spaces : \A j \in spaces : i <= j
        done(w) == IF w = "" THEN <<>> ELSE <<w>>
    IN IF spaces = {} THEN done(word \o s)
       ELSE done(word \o SubSeq(s, 1, first - 1))
                \o SplitWords(SubSeq(s, first + 1, Len(s)), "")

WordsOfItem == [w \in ItemVocabulary |-> SplitWords(w, "")]

RECURSIVE Words(_)
Words(t) == IF t = <<>> THEN <<>> ELSE WordsOfItem[Head(t)] \o Words(Tail(t))

AllItems ==
    Vocabulary \cup ItemVocabulary \cup UNION {Range(WordsOfItem[w]) : w \in ItemVocabulary}

\* the lower-case form of every item, computed once
LowerOfWord == [w \in AllItems |-> LowerWord(w)]

\* text.lower(): the separators (spaces) are unchanged
Lower(t) == [i \in DOMAIN t |-> LowerOfWord[t[i]]]

-----------------------------------------------------------------------------
(* Regular-expression matching on a text of \w-words joined by one space *)

\* \bSTEM\w*\b : some word begins with STEM
StartsWith(w, stem) ==
    /\ Len(w) >= Len(stem)
    /\ SubSeq(w, 1, Len(stem)) = stem

HasStem(t, stem) == \E i \in DOMAIN t : StartsWith(t[i], stem)

\* \bWORD\b : some word is WORD
HasWord(t, w) == \E i \in DOMAIN t : t[i] = w

\* \bFIRST (A|B)\b : FIRST directly followed, after one space, by a word of seconds
HasPair(t, first, seconds) ==
    \E i \in DOMAIN t : i + 1 \in DOMAIN t /\ t[i] = first /\ t[i + 1] \in seconds

\* \bA (B|C) (D|E)\b
HasTriple(t, first, seconds, thirds) ==
    \E i \in DOMAIN t :
        /\ i + 2 \in DOMAIN t
        /\ t[i] = first
        /\ t[i + 1] \in seconds
        /\ t[i + 2] \in thirds

\* number of characters strictly between the end of word i and the start of word j
RECURSIVE Gap(_, _, _)
Gap(t, i, j) ==
    IF j <= i + 1 THEN 1 ELSE Len(t[j - 1]) + 1 + Gap(t, i, j - 1)

\* \b(3|three)[-\s]?phase\b starting at word j
ThreePhaseAt(t, j) ==
    \/ t[j] \in {"3phase", "threephase"}
    \/ /\ t[j] \in {"3", "three"}
       /\ j + 1 \in DOMAIN t
       /\ t[j + 1] = "phase"

ActionVerbs == {"build", "make", "connect", "configure", "create", "use"}

\* \b(can\s+i\s+)?(build|make|connect|configure|create|use)\w*\b.{0,30}\b(3|three)[-\s]?phase\b
ActionThenThreePhase(t) ==
    \E i \in DOMAIN t, j \in DOMAIN t :
        /\ i < j
        /\ \E v \in ActionVerbs : StartsWith(t[i], v)
        /\ ThreePhaseAt(t, j)
        /\ Gap(t, i, j) <= 30

-----------------------------------------------------------------------------
(* pipeline/processors/llm_processor.py *)

\* The Ukrainian and Russian alternatives of both pattern lists are Cyrillic
\* words; no text over Vocabulary matches them, so they are left out.
detect_parallel_query(t) ==
    LET text_lower == Lower(t)
    IN \/ HasStem(text_lower, "parallel")
       \/ HasStem(text_lower, "stack")
       \/ HasWord(text_lower, "stacking")
       \/ ActionThenThreePhase(text_lower)

detect_compatibility_query(t) ==
    LET text_lower == Lower(t)
    IN \/ HasStem(text_lower, "compat")
       \/ HasTriple(text_lower, "can", {"i", "we"}, {"connect", "use", "combine"})
       \/ HasPair(text_lower, "work", {"with", "together"})
       \/ HasWord(text_lower, "accoupling")
       \/ HasPair(text_lower, "ac", {"coupling"})

IsValidModel(m) == m.value # None

\* mutant of status_by_counts: the "value is not None" filter is forgotten
status_by_counts_unfiltered(entities) ==
    LET num_models == Len(entities.model)
        num_params == Len(entities.parameters)
    IN IF /\ num_models >= 1 /\ num_params >= 1
          /\ num_models <= 2 /\ num_params <= 2
       THEN "simple"
       ELSE "complex"

\* mutant of status_by_counts: the upper limits are off by one
status_by_counts_upto3(entities) ==
    LET valid_models == SelectSeq(entities.model, IsValidModel)
        num_valid_models == Len(valid_models)
        num_params == Len(entities.parameters)
    IN IF /\ num_valid_models >= 1 /\ num_params >= 1
          /\ num_valid_models <= 3 /\ num_params <= 3
       THEN "simple"
       ELSE "complex"

\* determine_status, the part after the two keyword tests
status_by_counts(entities) ==
    LET models == entities.model
        parameters == entities.parameters
        valid_models == SelectSeq(models, IsValidModel)
        num_valid_models == Len(valid_models)
        num_params == Len(parameters)
    IN IF /\ num_valid_models >= 1 /\ num_params >= 1
          /\ num_valid_models <= 2 /\ num_params <= 2
       THEN "simple"
       ELSE "complex"

\* mutant of determine_status: the compatibility test comes first
determine_status_compat_first(entities, original_text) ==
    IF detect_compatibility_query(original_text) THEN "compat"
    ELSE IF detect_parallel_query(original_text) THEN "parallel"
    ELSE status_by_counts(entities)

\* mutant of determine_status: a direct lookup is recognised before the
\* compatibility keywords are looked at
determine_status_counts_first(entities, original_text) ==
    IF detect_parallel_query(original_text) THEN "parallel"
    ELSE IF status_by_counts(entities) = "simple" THEN "simple"
    ELSE IF detect_compatibility_query(original_text) THEN "compat"
    ELSE "complex"

determine_status(entities, original_text) ==
    IF detect_parallel_query(original_text) THEN "parallel"
    ELSE IF detect_compatibility_query(original_text) THEN "compat"
    ELSE status_by_counts(entities)

\* mutant of determine_intent_logic: only the status complex looks at the
\* entities
determine_intent_complex_only(st, entities) ==
    IF st = "compat" THEN "compatibility_query"
    ELSE IF st = "simple" THEN "sql_query"
    ELSE IF st = "complex" /\ entities.parameters # <<>> THEN "multi_model_query"
    ELSE IF st = "complex" /\ entities.model # <<>> THEN "uncertain"
    ELSE "no_entities"

determine_intent_logic(st, entities) ==
    IF st = "compat" THEN "compatibility_query"
    ELSE IF st = "simple" THEN "sql_query"
    ELSE IF entities.parameters # <<>> THEN "multi_model_query"
    ELSE IF entities.model # <<>> THEN "uncertain"
    ELSE "no_entities"

-----------------------------------------------------------------------------
(* core/normalization: the registries and normalize_model *)

\* data/canon_models.txt as load_canonical_models returns it: lower-case
\* original name -> canonical name ("old ->" is a line with nothing after the arrow)
CanonicalModels ==
    [k \in {"us5000", "a48100", "old"} |->
        CASE k = "us5000" -> "us5000"
          [] k = "a48100" -> "a48100"
          [] k = "old" -> ""]

\* mutant of normalize_model_with: the heuristic fallback, the cleaned text
\* itself when the registry has no entry
normalize_model_fallback(mapping, model_name) ==
    IF model_name = "" THEN None
    ELSE LET key == LowerWord(Strip(model_name))
         IN IF key \in DOMAIN mapping THEN mapping[key] ELSE key

\* normalize_model once load_canonical_models() has returned mapping
normalize_model_with(mapping, model_name) ==
    IF model_name = "" THEN None
    ELSE LET key == LowerWord(Strip(model_name))
         IN IF key \in DOMAIN mapping THEN mapping[key] ELSE None

normalize_model(model_name) == normalize_model_with(CanonicalModels, model_name)

\* data/equipment_models_named.csv as load_model_metadata returns it
ModelMetadata ==
    [k \in {"us5000"} |-> [manufacturer |-> "pylontech", equipment_type |-> "battery"]]

\* "no metadata": every reader of a model's metadata goes through
\* .get("manufacturer", "") and .get("equipment_type"), which give "" and None
NoMetadata == [manufacturer |-> "", equipment_type |-> None]

\* get_model_metadata once load_model_metadata() has returned metadata
get_model_metadata_from(metadata, canonical_model) ==
    IF canonical_model \in {"", None} THEN NoMetadata
    ELSE LET key == LowerWord(Strip(canonical_model))
         IN IF key \in DOMAIN metadata THEN metadata[key] ELSE NoMetadata

get_model_metadata(canonical_model) == get_model_metadata_from(ModelMetadata, canonical_model)

-----------------------------------------------------------------------------
(* pipeline/exctractors/parameter_extractor.py: segmentation *)

\* the text as Python sees it: the items joined by single spaces
RECURSIVE Join(_)
Join(t) ==
    IF t = <<>> THEN ""
    ELSE IF Len(t) = 1 THEN t[1]
    ELSE t[1] \o " " \o Join(Tail(t))

\* s[p], s[a:b] with Python's 0-based offsets
CharAt(s, p) == SubSeq(s, p + 1, p + 1)

Slice(s, a, b) == SubSeq(s, a + 1, b)

\* offset of item i of a text
RECURSIVE Offset(_, _)
Offset(t, i) == IF i = 1 THEN 0 ELSE Offset(t, i - 1) + Len(t[i - 1]) + 1

IsSpaceChar(c) == c = " "

RECURSIVE SkipSpaces(_, _)
SkipSpaces(s, p) ==
    IF p < Len(s) /\ IsSpaceChar(CharAt(s, p)) THEN SkipSpaces(s, p + 1) ELSE p

\* SPLIT_PATTERNS: the alternatives between the two \s+; the Cyrillic ones
\* match no text over the vocabulary and are left out
ConjunctionWords == {"and", "or", ",", ";"}

\* end of the match of CONJUNCTION_REGEX (re.IGNORECASE) that starts at p, -1 if none
MatchEndAt(s, p) ==
    LET after(a, hits) ==
            IF hits = {} THEN -1
            ELSE SkipSpaces(s, a + Len(CHOOSE c \in hits : TRUE))
        word_at(a) ==
            after(a, {c \in ConjunctionWords :
                         /\ a + Len(c) < Len(s)
                         /\ LowerWord(Slice(s, a, a + Len(c))) = c
                         /\ IsSpaceChar(CharAt(s, a + Len(c)))})
    IN IF ~(p < Len(s) /\ IsSpaceChar(CharAt(s, p))) THEN -1
       ELSE word_at(SkipSpaces(s, p))

\* CONJUNCTION_REGEX.finditer(text): the non-overlapping matches, left to right
RECURSIVE FindIter(_, _)
FindIter(s, p) ==
    LET match(start, end) == <<[start |-> start, end |-> end]>> \o FindIter(s, end)
        first(start) == match(start, MatchEndAt(s, start))
        leftmost(starts) ==
            IF starts = {} THEN <<>>
            ELSE first(CHOOSE q \in starts : \A r \in starts : q <= r)
    IN leftmost({q \in p..(Len(s) - 1) : MatchEndAt(s, q) # -1})

RECURSIVE SegmentsFrom(_, _, _, _)
SegmentsFrom(s, matches, last_end, segments) ==
    IF matches = <<>>
    THEN IF last_end < Len(s) /\ Strip(Slice(s, last_end, Len(s))) # ""
         THEN Append(segments, [text |-> Strip(Slice(s, last_end, Len(s))),
                                start |-> last_end, end |-> Len(s)])
         ELSE segments
    ELSE LET m == Head(matches)
             kept == IF last_end < m.start /\ Strip(Slice(s, last_end, m.start)) # ""
                     THEN Append(segments, [text |-> Strip(Slice(s, last_end, m.start)),
                                            start |-> last_end, end |-> m.start])
                     ELSE segments
         IN SegmentsFrom(s, Tail(matches), m.end, kept)

\* mutant of split_into_segments: no whole-text segment when nothing was kept
split_into_segments_no_fallback(s) == SegmentsFrom(s, FindIter(s, 0), 0, <<>>)

split_into_segments(s) ==
    LET segments == SegmentsFrom(s, FindIter(s, 0), 0, <<>>)
    IN IF segments = <<>> THEN <<[text |-> s, start |-> 0, end |-> Len(s)]>>
       ELSE segments

-----------------------------------------------------------------------------
(* core/normalization/entity_normalization: clean_word and normalize_entity *)

Digits == "0123456789"

AlnumChars == Chars(UpperLetters) \cup Chars(LowerLetters) \cup Chars(Digits)

\* str.isalnum() of one character
IsAlnum(c) == c \in AlnumChars

\* [\w\d\-\.]
IsNameChar(c) == IsAlnum(c) \/ c \in {"_", "-", "."}

RECURSIVE StripOutside(_)
StripOutside(w) ==
    IF Len(w) = 0 THEN w
    ELSE IF ~IsNameChar(SubSeq(w, 1, 1)) THEN StripOutside(SubSeq(w, 2, Len(w)))
    ELSE IF ~IsNameChar(SubSeq(w, Len(w), Len(w))) THEN StripOutside(SubSeq(w, 1, Len(w) - 1))
    ELSE w

clean_word(word) == StripOutside(Strip(word))

\* lower-case variant -> canonical name, the rows the vocabulary reaches
equipment_normalization == [v \in {"inverter", "inverters"} |-> "INVERTER"]

manufacturer_normalization == [v \in {"deye"} |-> "DEYE"]

normalize_entity(word, label) ==
    LET word_lower == LowerWord(word)
    IN IF label = "EQ_TYPE" /\ word_lower \in DOMAIN equipment_normalization
       THEN equipment_normalization[word_lower]
       ELSE IF label = "MANUFACTURER" /\ word_lower \in DOMAIN manufacturer_normalization
       THEN manufacturer_normalization[word_lower]
       ELSE word

-----------------------------------------------------------------------------
(* pipeline/exctractors/parameter_extractor.py: entities *)

\* the English stop words; the Cyrillic ones match no item of the vocabulary
Stopwords ==
    {"what", "which", "how", "for", "from", "with", "without", "the", "this", "that",
     "these", "those", "and", "or", "give", "me", "tell", "inverter", "battery"}

is_stopword_or_common(word) == LowerWord(Strip(word)) \in Stopwords

\* nlp(text).ents: the trained recogniser labels the items it knows
NerLabel ==
    [w \in QueryVocabulary |->
        CASE w \in {"US5000", "A48100", "XYZ", "Old"} -> "MODEL"
          [] w = "Deye" -> "MANUFACTURER"
          [] w = "inverter" -> "EQ_TYPE"
          [] OTHER -> None]

Min(a, b) == IF a <= b THEN a ELSE b

Abs(n) == IF n < 0 THEN -n ELSE n

\* the entity of item i
EntityDict(t, i) ==
    LET ent_text == t[i]
        label == NerLabel[ent_text]
        normalized == normalize_entity(clean_word(ent_text), label)
        confidence == Min(95, 70 + 2 * Len(ent_text))
        canonical == normalize_model(ent_text)
    IN IF label = "MODEL"
       THEN [value |-> canonical,
             confidence |-> confidence,
             position |-> Offset(t, i),
             end_position |-> Offset(t, i) + Len(ent_text),
             original_value |-> ent_text,
             metadata |-> IF canonical \notin {None, ""}
                          THEN get_model_metadata(canonical) ELSE NoMetadata]
       ELSE [value |-> normalized,
             confidence |-> confidence,
             position |-> Offset(t, i),
             end_position |-> Offset(t, i) + Len(ent_text)]

NoEntities == [MANUFACTURER |-> <<>>, MODEL |-> <<>>, EQ_TYPE |-> <<>>]

RECURSIVE EntitiesFrom(_, _, _)
EntitiesFrom(t, i, grouped) ==
    LET add(label, entity_dict) ==
            IF label = "MANUFACTURER" /\ is_stopword_or_common(entity_dict.value)
            THEN grouped
            ELSE IF \E k \in DOMAIN grouped[label] :
                        grouped[label][k].value = entity_dict.value
            THEN grouped
            ELSE [grouped EXCEPT ![label] = Append(@, entity_dict)]
    IN IF i > Len(t) THEN grouped
       ELSE EntitiesFrom(t, i + 1,
                         IF NerLabel[t[i]] = None THEN grouped
                         ELSE add(NerLabel[t[i]], EntityDict(t, i)))

\* a label the text has no entity of is an empty list (grouped.get(label, []))
extract_entities_with_metadata(t) == EntitiesFrom(t, 1, NoEntities)

-----------------------------------------------------------------------------
(* pipeline/exctractors/parameter_extractor.py: find_parameters *)

\* param_glossary: key -> synonyms, in the order of the dict; an excerpt of
\* DEFAULT_PARAM_GLOSSARY with the multi-word synonym in English
ParamGlossary ==
    << [key |-> "grid_monitoring", syns |-> <<CrossingSynonym>>],
       [key |-> "noise_db", syns |-> <<"noise">>],
       [key |-> "weight_kg", syns |-> <<"weight">>] >>

\* the glossary of the texts given to find_parameters alone, the keys in the
\* order of config.py: synonyms that nest across keys, plural synonyms, and a
\* synonym listed under two keys, as "battery_voltage_range" is under
\* battery_voltage_range_v_max and _v_min
MatcherGlossary ==
    ParamGlossary \o
    << [key |-> "full_power_mppt_voltage_range_v_min",
        syns |-> <<OuterSynonym, OuterWord>>],
       [key |-> "max_ac_output_power_w", syns |-> <<PowerSynonym>>],
       [key |-> "mppt_voltage_range_v_min", syns |-> <<InnerSynonym, InnerWord>>],
       [key |-> "certifications", syns |-> <<"certifications">>],
       [key |-> "battery_voltage_range_v_max", syns |-> <<"battery_voltage_range">>],
       [key |-> "battery_voltage_range_v_min", syns |-> <<"battery_voltage_range">>],
       [key |-> "offgrid_peak_power", syns |-> <<PeakSynonym>>] >>

\* dict[syn] = key: a known synonym keeps its place and takes the new key
DictSet(items, syn, key) ==
    IF \E i \in DOMAIN items : items[i].syn = syn
    THEN [i \in DOMAIN items |-> IF items[i].syn = syn THEN [syn |-> syn, key |-> key]
                                 ELSE items[i]]
    ELSE Append(items, [syn |-> syn, key |-> key])

RECURSIVE AddSynonyms(_, _, _)
AddSynonyms(items, key, syns) ==
    IF syns = <<>> THEN items
    ELSE AddSynonyms(DictSet(items, LowerWord(Strip(Head(syns))), key), key, Tail(syns))

RECURSIVE SynonymToKey(_, _)
SynonymToKey(glossary, items) ==
    IF glossary = <<>> THEN items
    ELSE SynonymToKey(Tail(glossary),
                      AddSynonyms(items, Head(glossary).key, Head(glossary).syns))

\* sorted(..., key=len, reverse=True): stable, longest first
RECURSIVE InsertByLength(_, _)
InsertByLength(sorted, e) ==
    IF sorted = <<>> THEN <<e>>
    ELSE IF Len(Head(sorted).syn) >= Len(e.syn)
         THEN <<Head(sorted)>> \o InsertByLength(Tail(sorted), e)
         ELSE <<e>> \o sorted

RECURSIVE SortByLength(_, _)
SortByLength(items, sorted) ==
    IF items = <<>> THEN sorted
    ELSE SortByLength(Tail(items), InsertByLength(sorted, Head(items)))

\* synonym_to_key.items(), in the order of the dict
synonym_to_key(param_glossary) == SynonymToKey(param_glossary, <<>>)

sorted_synonyms(param_glossary) == SortByLength(synonym_to_key(param_glossary), <<>>)


\* str.find(sub, start): the first offset >= start where sub occurs, -1 if none
Find(s, sub, start) ==
    LET first(hits) == IF hits = {} THEN -1 ELSE CHOOSE i \in hits : \A j \in hits : i <= j
    IN first({i \in start..(Len(s) - Len(sub)) : Slice(s, i, i + Len(sub)) = sub})

\* the while loop of the exact phase for one synonym
RECURSIVE ExactScan(_, _, _, _, _)
ExactScan(s, lower, e, start, acc) ==
    LET match(idx, next) ==
            IF \E p \in acc.found_positions : Abs(p - idx) < 5 THEN acc
            ELSE IF ~(/\ idx = 0 \/ ~IsAlnum(CharAt(s, idx - 1))
                      /\ next >= Len(s) \/ ~IsAlnum(CharAt(s, next)))
            THEN acc
            ELSE [results |-> Append(acc.results,
                                     [key |-> e.key,
                                      synonym_matched |-> e.syn,
                                      confidence |-> 95,
                                      position |-> idx,
                                      end_position |-> next,
                                      extracted_value |-> Strip(Slice(s, idx, next)),
                                      match_type |-> "exact"]),
                  found_positions |-> acc.found_positions \cup {idx}]
        scan(idx) ==
            IF idx = -1 THEN acc
            ELSE ExactScan(s, lower, e, idx + Len(e.syn), match(idx, idx + Len(e.syn)))
    IN scan(Find(lower, e.syn, start))

RECURSIVE ExactPhase(_, _, _, _)
ExactPhase(s, lower, synonyms, acc) ==
    IF synonyms = <<>> THEN acc
    ELSE ExactPhase(s, lower, Tail(synonyms),
                    IF Head(synonyms).syn = "" THEN acc
                    ELSE ExactScan(s, lower, Head(synonyms), 0, acc))

\* list.sort(key=position): stable, ascending
RECURSIVE InsertByPosition(_, _)
InsertByPosition(sorted, r) ==
    IF sorted = <<>> THEN <<r>>
    ELSE IF Head(sorted).position <= r.position
         THEN <<Head(sorted)>> \o InsertByPosition(Tail(sorted), r)
         ELSE <<r>> \o sorted

RECURSIVE SortByPosition(_, _)
SortByPosition(results, sorted) ==
    IF results = <<>> THEN sorted
    ELSE SortByPosition(Tail(results), InsertByPosition(sorted, Head(results)))

\* list.remove(x): without the first element equal to x
RemoveFirst(seq, x) ==
    IF \E i \in DOMAIN seq : seq[i] = x
    THEN LET i == CHOOSE i \in DOMAIN seq :
                      seq[i] = x /\ \A j \in 1..(i - 1) : seq[j] # x
         IN SubSeq(seq, 1, i - 1) \o SubSeq(seq, i + 1, Len(seq))
    ELSE seq

Overlapping(existing, r) ==
    \/ existing.position <= r.position /\ r.position < existing.end_position
    \/ existing.position < r.end_position /\ r.end_position <= existing.end_position
    \/ r.position <= existing.position /\ r.end_position >= existing.end_position

DictPut(d, k, v) == [x \in DOMAIN d \cup {k} |-> IF x = k THEN v ELSE d[x]]

DictDel(d, k) == [x \in DOMAIN d \ {k} |-> d[x]]

\* the "if key in seen_keys" part of the conflict-resolution loop
SameKeyStep(acc, r) ==
    IF r.key \in DOMAIN acc.seen_keys
    THEN LET existing == acc.seen_keys[r.key]
             distance == Abs(r.position - existing.position)
         IN IF distance > 50
            THEN [acc EXCEPT !.final_results = Append(@, r)]
            ELSE IF r.confidence > existing.confidence
            THEN [final_results |-> Append(RemoveFirst(acc.final_results, existing), r),
                  seen_keys |-> DictPut(acc.seen_keys, r.key, r)]
            ELSE acc
    ELSE [final_results |-> Append(acc.final_results, r),
          seen_keys |-> DictPut(acc.seen_keys, r.key, r)]

\* mutant of ResolveStep: no overlap test
resolve_step_same_key_only(acc, r) == SameKeyStep(acc, r)

\* mutant of ResolveStep: an overlapping result always replaces the retained one
resolve_step_last_wins(acc, r) ==
    LET hits == {i \in DOMAIN acc.final_results : Overlapping(acc.final_results[i], r)}
    IN IF hits = {} THEN SameKeyStep(acc, r)
       ELSE LET existing == acc.final_results[CHOOSE i \in hits : \A j \in hits : i <= j]
            IN SameKeyStep(
                   [final_results |-> RemoveFirst(acc.final_results, existing),
                    seen_keys |->
                        IF /\ existing.key \in DOMAIN acc.seen_keys
                           /\ acc.seen_keys[existing.key] = existing
                        THEN DictDel(acc.seen_keys, existing.key)
                        ELSE acc.seen_keys],
                   r)

\* one round of the conflict-resolution loop: the first retained result that
\* overlaps r decides
ResolveStep(acc, r) ==
    LET hits == {i \in DOMAIN acc.final_results : Overlapping(acc.final_results[i], r)}
    IN IF hits = {} THEN SameKeyStep(acc, r)
       ELSE LET existing == acc.final_results[CHOOSE i \in hits : \A j \in hits : i <= j]
            IN IF r.confidence > existing.confidence
               THEN SameKeyStep(
                        [final_results |-> RemoveFirst(acc.final_results, existing),
                         seen_keys |->
                             IF /\ existing.key \in DOMAIN acc.seen_keys
                                /\ acc.seen_keys[existing.key] = existing
                             THEN DictDel(acc.seen_keys, existing.key)
                             ELSE acc.seen_keys],
                        r)
               ELSE acc

RECURSIVE Resolve(_, _)
Resolve(results, acc) ==
    IF results = <<>> THEN acc
    ELSE Resolve(Tail(results), ResolveStep(acc, Head(results)))

\* normalize_for_matching: lower case, then the plural endings; the Cyrillic
\* endings end no word of the vocabulary
EndsWith(s, suffix) ==
    Len(s) >= Len(suffix) /\ SubSeq(s, Len(s) - Len(suffix) + 1, Len(s)) = suffix

normalize_for_matching(x) ==
    LET lowered == Strip(LowerWord(x))
        singular == IF EndsWith(lowered, "es") THEN SubSeq(lowered, 1, Len(lowered) - 2)
                    ELSE IF EndsWith(lowered, "s") THEN SubSeq(lowered, 1, Len(lowered) - 1)
                    ELSE lowered
    IN Strip(singular)

\* the synonym maps of a glossary, computed once: sorted_synonyms, and
\* synonym_to_key.items() with normalize_for_matching of every synonym and
\* its words
WithNormalized(items) ==
    [i \in DOMAIN items |->
        [syn |-> items[i].syn,
         key |-> items[i].key,
         syn_normalized |-> normalize_for_matching(items[i].syn),
         syn_words |-> SplitWords(normalize_for_matching(items[i].syn), "")]]

SynonymMaps(param_glossary) ==
    [sorted_synonyms |-> sorted_synonyms(param_glossary),
     synonym_to_key |-> WithNormalized(synonym_to_key(param_glossary))]

DefaultMaps == SynonymMaps(ParamGlossary)

MatcherMaps == SynonymMaps(MatcherGlossary)

\* rapidfuzz.fuzz, as far as the threshold can tell for the windows over the
\* vocabulary: a measure is 100 for equal strings (ratio), for a string that
\* occurs in the other (partial_ratio), for the same words in any order
\* (token_sort_ratio), for a word set that includes the other (token_set_ratio);
\* every score these rules leave below 100 is written 0
Contains(s, sub) ==
    \E i \in 0..(Len(s) - Len(sub)) : Slice(s, i, i + Len(sub)) = sub

FuzzRatio(a, b) == IF a = b THEN 100 ELSE 0

FuzzPartialRatio(a, b) ==
    IF (IF Len(a) <= Len(b) THEN Contains(b, a) ELSE Contains(a, b)) THEN 100 ELSE 0

SameWords(wa, wb) ==
    /\ Range(wa) = Range(wb)
    /\ \A w \in Range(wa) :
           Cardinality({i \in DOMAIN wa : wa[i] = w})
               = Cardinality({i \in DOMAIN wb : wb[i] = w})

\* token_sort_ratio and token_set_ratio of two strings, given their words
FuzzTokenSortRatio(wa, wb) == IF SameWords(wa, wb) THEN 100 ELSE 0

FuzzTokenSetRatio(wa, wb) ==
    LET included(ta, tb) == ta \cap tb # {} /\ (ta \subseteq tb \/ tb \subseteq ta)
    IN IF included(Range(wa), Range(wb)) THEN 100 ELSE 0

Max(a, b) == IF a >= b THEN a ELSE b

MIN_WORD_LENGTH_FOR_FUZZY == 4

MIN_SYNONYM_LENGTH_FOR_FUZZY == 4

FUZZY_MATCH_THRESHOLD == 80

\* the score of one synonym for one candidate, -1 when the synonym is skipped
\* (the mean of two scores is rounded down: it is below the threshold)
FuzzyScore(text_normalized, text_words, word_count, item) ==
    LET combined(syn_normalized, syn_word_count, ratio, partial_ratio, token_score) ==
            LET bonus(bonus_score) ==
                    IF partial_ratio > bonus_score
                    THEN (bonus_score + partial_ratio) \div 2
                    ELSE bonus_score
            IN IF Len(syn_normalized) < MIN_SYNONYM_LENGTH_FOR_FUZZY THEN -1
               ELSE IF syn_word_count > 1 /\ Abs(word_count - syn_word_count) > 3 THEN -1
               ELSE IF 10 * Len(text_normalized) < 3 * Len(syn_normalized) THEN -1
               ELSE IF syn_word_count > 1
               THEN bonus(IF word_count = syn_word_count THEN Min(100, token_score + 5)
                          ELSE token_score)
               ELSE Max(ratio, partial_ratio)
    IN combined(item.syn_normalized,
                Len(item.syn_words),
                FuzzRatio(text_normalized, item.syn_normalized),
                FuzzPartialRatio(text_normalized, item.syn_normalized),
                Max(FuzzTokenSortRatio(text_words, item.syn_words),
                    FuzzTokenSetRatio(text_words, item.syn_words)))

\* the best synonym of a candidate: the first, in the order of the dict, of
\* the highest score that reaches the threshold
RECURSIVE BestMatch(_, _, _, _, _)
BestMatch(text_normalized, text_words, word_count, items, best) ==
    LET better(score) ==
            IF score > best.score /\ score >= FUZZY_MATCH_THRESHOLD
            THEN [score |-> score, syn |-> Head(items).syn, key |-> Head(items).key]
            ELSE best
    IN IF items = <<>> THEN best
       ELSE BestMatch(text_normalized, text_words, word_count, Tail(items),
                      better(FuzzyScore(text_normalized, text_words, word_count,
                                        Head(items))))

\* re.finditer(re.escape(syn), lower): the occurrences, left to right, not overlapping
RECURSIVE Occurrences(_, _, _)
Occurrences(lower, syn, start) ==
    LET from(idx) ==
            IF idx = -1 THEN <<>> ELSE <<idx>> \o Occurrences(lower, syn, idx + Len(syn))
    IN from(Find(lower, syn, start))

\* the candidates of word i: the windows of 5, 4, 3, 2 words, then the word
CandidatesAt(words, i) ==
    LET window(length) ==
            LET phrase == Join(SubSeq(words, i, i + length - 1))
            IN IF i + length - 1 <= Len(words) /\ Len(phrase) >= MIN_WORD_LENGTH_FOR_FUZZY
               THEN <<[text |-> phrase,
                       position |-> Offset(words, i),
                       end_position |-> Offset(words, i + length - 1)
                                            + Len(words[i + length - 1]),
                       word_count |-> length]>>
               ELSE <<>>
        single == IF /\ Len(words[i]) >= MIN_WORD_LENGTH_FOR_FUZZY
                     /\ ~is_stopword_or_common(words[i])
                  THEN <<[text |-> words[i],
                          position |-> Offset(words, i),
                          end_position |-> Offset(words, i) + Len(words[i]),
                          word_count |-> 1]>>
                  ELSE <<>>
    IN window(5) \o window(4) \o window(3) \o window(2) \o single

\* one round of the fuzzy loop for a candidate away from the found positions
FuzzyStep(s, lower, maps, acc, candidate) ==
    LET pos == candidate.position
        found(best, match_start, match_end) ==
            [results |-> Append(acc.results,
                                [key |-> best.key,
                                 synonym_matched |-> best.syn,
                                 confidence |-> best.score,
                                 position |-> match_start,
                                 end_position |-> match_end,
                                 extracted_value |-> Strip(Slice(s, match_start, match_end)),
                                 match_type |-> "fuzzy",
                                 fuzzy_score |-> best.score]),
             found_positions |-> acc.found_positions \cup {match_start}]
        closest(occurrences) ==
            occurrences[CHOOSE i \in DOMAIN occurrences :
                            \A j \in DOMAIN occurrences :
                                \/ Abs(occurrences[i] - pos) < Abs(occurrences[j] - pos)
                                \/ /\ Abs(occurrences[i] - pos) = Abs(occurrences[j] - pos)
                                   /\ i <= j]
        located(best, syn_l, occurrences) ==
            IF occurrences # <<>>
            THEN found(best, closest(occurrences), closest(occurrences) + Len(syn_l))
            ELSE found(best, pos, candidate.end_position)
        matched(best, syn_l) ==
            IF best.syn = "" THEN acc
            ELSE IF \E i \in DOMAIN acc.results :
                        /\ acc.results[i].key = best.key
                        /\ Abs(acc.results[i].position - pos) < 50
                        /\ acc.results[i].confidence > best.score
            THEN acc
            ELSE located(best, syn_l, Occurrences(lower, syn_l, 0))
        scored(best) == matched(best, Strip(LowerWord(best.syn)))
        best_of(text_normalized) ==
            BestMatch(text_normalized, SplitWords(text_normalized, ""), candidate.word_count,
                      maps.synonym_to_key, [score |-> 0, syn |-> "", key |-> ""])
    IN scored(best_of(normalize_for_matching(candidate.text)))

RECURSIVE FuzzyPhase(_, _, _, _, _)
FuzzyPhase(s, lower, maps, candidates, acc) ==
    IF candidates = <<>> THEN acc
    ELSE IF \E p \in acc.found_positions : Abs(p - Head(candidates).position) < 5
    THEN FuzzyPhase(s, lower, maps, Tail(candidates), acc)
    ELSE FuzzyPhase(s, lower, maps, Tail(candidates),
                    FuzzyStep(s, lower, maps, acc, Head(candidates)))

\* When no occurrence of the synonym is found in the whole text, the search in
\* the window around the candidate finds none either: the candidate's bounds
\* are used.
accepted_results(t, maps) ==
    LET phases(s, lower, words) ==
            FuzzyPhase(s, lower, maps,
                       Concat([i \in DOMAIN words |-> CandidatesAt(words, i)]),
                       ExactPhase(s, lower, maps.sorted_synonyms,
                                  [results |-> <<>>, found_positions |-> {}]))
    IN SortByPosition(phases(Join(t), Join(Lower(t)), Words(t)).results, <<>>)

\* the conflict resolution of find_parameters, from results.sort on
resolve_conflicts(results) ==
    SortByPosition(Resolve(results, [final_results |-> <<>>, seen_keys |-> <<>>]).final_results,
                   <<>>)

\* find_parameters(text, param_glossary), given the glossary's synonym maps
find_parameters(t, maps) == resolve_conflicts(accepted_results(t, maps))

-----------------------------------------------------------------------------
(* pipeline/exctractors/parameter_extractor.py: binding and routing *)

BORDER_TOLERANCE == 2

\* a Python exception that leaves the function instead of a result
ValueError == [raised |-> "ValueError"]

IsRaised(r) == "raised" \in DOMAIN r

\* min(seq, key=lambda m: abs(m.position - pos)): the first of the closest;
\* min() of an empty sequence raises ValueError
MinByDistance(seq, pos) ==
    IF seq = <<>> THEN ValueError
    ELSE seq[CHOOSE i \in DOMAIN seq :
                 \A j \in DOMAIN seq :
                     \/ Abs(seq[i].position - pos) < Abs(seq[j].position - pos)
                     \/ /\ Abs(seq[i].position - pos) = Abs(seq[j].position - pos)
                        /\ i <= j]

\* m["canonical"] = normalize_model(m.get("original_value", ""))
WithCanonical(m) ==
    [x \in DOMAIN m \cup {"canonical"} |->
        IF x = "canonical" THEN normalize_model(m.original_value) ELSE m[x]]

\* mutant of valid_models_of: unresolved models are kept
valid_models_unfiltered(models) == models

\* [m for m in models if m.get("canonical")]
valid_models_of(models) ==
    SelectSeq(models, LAMBDA m : m.canonical \notin {None, ""})

overlaps_with_segment(ent_start, ent_end, seg_start, seg_end) ==
    ~(ent_end < seg_start - BORDER_TOLERANCE \/ ent_start > seg_end + BORDER_TOLERANCE)

InSegment(e, segment) == segment.start <= e.position /\ e.position < segment.end

\* mutant of closest_model: only the models of the parameter's own segment
closest_model_same_segment(seg_models, valid_models, param) ==
    MinByDistance(seg_models, param.position)

\* the model of a parameter: the closest of its segment, else the closest overall
closest_model(seg_models, valid_models, param) ==
    IF seg_models # <<>> THEN MinByDistance(seg_models, param.position)
    ELSE MinByDistance(valid_models, param.position)

\* the sub-query of one parameter of one segment
SegmentSubQuery(segment, param, valid_models, manufacturers, eq_types) ==
    LET sub_query(model, seg_manufacturers, seg_eq_types) ==
            IF IsRaised(model) THEN model
            ELSE [manufacturer |->
                      IF seg_manufacturers # <<>>
                      THEN MinByDistance(seg_manufacturers, param.position).value
                      ELSE IF model.metadata.manufacturer = "" /\ manufacturers # <<>>
                      THEN manufacturers[1].value
                      ELSE model.metadata.manufacturer,
                  model |-> model.canonical,
                  equipment_type |->
                      IF seg_eq_types # <<>> THEN seg_eq_types[1].value
                      ELSE IF model.metadata.equipment_type \in {None, ""} /\ eq_types # <<>>
                      THEN eq_types[1].value
                      ELSE model.metadata.equipment_type,
                  parameter |-> param.key,
                  original_part |-> param.extracted_value,
                  confidence |-> param.confidence,
                  match_type |-> param.match_type]
    IN sub_query(closest_model(SelectSeq(valid_models, LAMBDA m : InSegment(m, segment)),
                               valid_models, param),
                 SelectSeq(manufacturers, LAMBDA m : InSegment(m, segment)),
                 SelectSeq(eq_types, LAMBDA e : InSegment(e, segment)))

\* the sub-queries of one segment: one for each parameter that overlaps it
SegmentSubQueries(segment, parameters, valid_models, manufacturers, eq_types) ==
    LET each(seg_params) ==
            [i \in DOMAIN seg_params |->
                SegmentSubQuery(segment, seg_params[i], valid_models, manufacturers,
                                eq_types)]
    IN each(SelectSeq(parameters,
                      LAMBDA p : overlaps_with_segment(p.position, p.end_position,
                                                       segment.start, segment.end)))

map_parameters_to_models(parameters, models, manufacturers, eq_types, s) ==
    LET per_segment(valid_models, segments) ==
            Concat([k \in DOMAIN segments |->
                       SegmentSubQueries(segments[k], parameters, valid_models,
                                         manufacturers, eq_types)])
        bound(valid_models) ==
            IF valid_models = <<>>
            THEN [i \in DOMAIN parameters |->
                     [manufacturer |-> IF manufacturers # <<>> THEN manufacturers[1].value
                                       ELSE "",
                      model |-> "ALL_LISTED",
                      equipment_type |-> IF eq_types # <<>> THEN eq_types[1].value ELSE None,
                      parameter |-> parameters[i].key,
                      original_part |-> parameters[i].extracted_value,
                      confidence |-> parameters[i].confidence,
                      match_type |-> parameters[i].match_type]]
            ELSE per_segment(valid_models, split_into_segments(s))
    IN bound(valid_models_of([i \in DOMAIN models |-> WithCanonical(models[i])]))

\* an exception raised for one sub-query leaves build_routing as well
build_routing(ner_entities, parameters, s) ==
    LET manufacturers == ner_entities.MANUFACTURER
        models == ner_entities.MODEL
        eq_types == ner_entities.EQ_TYPE
        strategy(sub_queries) ==
            IF \E i \in DOMAIN sub_queries : IsRaised(sub_queries[i])
            THEN ValueError
            ELSE IF Len(sub_queries) = 0
            THEN [recommended_strategy |-> "noEntities",
                  message |-> "No valid parameter-model bindings",
                  options |-> <<>>]
            ELSE IF Len(sub_queries) = 1
            THEN [recommended_strategy |-> "single_query", sub_query |-> sub_queries[1]]
            ELSE [recommended_strategy |-> "multi_query", sub_queries |-> sub_queries]
    IN IF manufacturers = <<>> /\ models = <<>> /\ parameters = <<>>
       THEN [recommended_strategy |-> "noEntities",
             message |-> "No entities detected",
             options |-> <<>>]
       ELSE strategy(map_parameters_to_models(parameters, models, manufacturers,
                                              eq_types, s))

\* process_question: model_dict of a MODEL entity
ModelDict(m) ==
    [value |-> normalize_model(m.original_value),
     confidence |-> m.confidence,
     position |-> m.position,
     original_value |-> m.original_value,
     metadata |-> m.metadata]

FromMetadata(value, model) ==
    [value |-> value, confidence |-> 95, position |-> model.position,
     end_position |-> model.position, source |-> "metadata"]

\* process_question: manufacturer and equipment type taken from the models'
\* metadata while the lists are empty
RECURSIVE Enrich(_, _)
Enrich(models, acc) ==
    IF models = <<>> THEN acc
    ELSE LET model == Head(models)
             metadata == model.metadata
             manufacturers ==
                 IF /\ model.value \notin {None, ""}
                    /\ acc.manufacturers = <<>>
                    /\ metadata.manufacturer # ""
                 THEN <<FromMetadata(metadata.manufacturer, model)>>
                 ELSE acc.manufacturers
             eq_types ==
                 IF /\ model.value \notin {None, ""}
                    /\ acc.eq_types = <<>>
                    /\ metadata.equipment_type \notin {None, ""}
                 THEN <<FromMetadata(metadata.equipment_type, model)>>
                 ELSE acc.eq_types
         IN Enrich(Tail(models), [manufacturers |-> manufacturers, eq_types |-> eq_types])

\* the entity lists and the routing; the model records are the ones
\* map_parameters_to_models has written the canonical field into
process_question(t) ==
    LET result(parameters, models, manufacturers, eq_types) ==
            [extracted_entities |->
                 [manufacturer |-> manufacturers,
                  model |-> [i \in DOMAIN models |-> WithCanonical(models[i])],
                  equipment_type |-> eq_types,
                  parameters |-> parameters],
             routing |->
                 build_routing([MANUFACTURER |-> manufacturers, MODEL |-> models,
                                EQ_TYPE |-> eq_types],
                               parameters, Join(t))]
        enriched(parameters, models, lists) ==
            result(parameters, models, lists.manufacturers, lists.eq_types)
        with_models(ner_entities, parameters, models) ==
            enriched(parameters, models,
                     Enrich(models, [manufacturers |-> ner_entities.MANUFACTURER,
                                     eq_types |-> ner_entities.EQ_TYPE]))
        extracted(ner_entities, parameters) ==
            with_models(ner_entities, parameters,
                        [i \in DOMAIN ner_entities.MODEL |-> ModelDict(ner_entities.MODEL[i])])
    IN extracted(extract_entities_with_metadata(t), find_parameters(t, DefaultMaps))

-----------------------------------------------------------------------------
(* pipeline/processors/llm_processor.py: the rule-based bindings *)

\* bindings_dict[model_value].append(param_key), keys and models at most once,
\* in the order of first appearance
AddBinding(bindings, model_value, param_key) ==
    IF \E i \in DOMAIN bindings : bindings[i].model = model_value
    THEN [i \in DOMAIN bindings |->
             IF bindings[i].model = model_value
                /\ \A k \in DOMAIN bindings[i].parameters :
                       bindings[i].parameters[k] # param_key
             THEN [bindings[i] EXCEPT !.parameters = Append(@, param_key)]
             ELSE bindings[i]]
    ELSE Append(bindings, [model |-> model_value, parameters |-> <<param_key>>])

RECURSIVE BindAll(_, _, _)
BindAll(parameters, valid_models, bindings) ==
    IF parameters = <<>> THEN bindings
    ELSE BindAll(Tail(parameters), valid_models,
                 AddBinding(bindings,
                            MinByDistance(valid_models, Head(parameters).position).value,
                            Head(parameters).key))

build_param_bindings_logic(entities) ==
    LET bind(parameters, valid_models) ==
            IF valid_models = <<>> \/ parameters = <<>> THEN <<>>
            ELSE SelectSeq(BindAll(parameters, valid_models, <<>>),
                           LAMBDA b : b.model \notin {"", None})
    IN bind(entities.parameters, SelectSeq(entities.model, IsValidModel))

-----------------------------------------------------------------------------
(* pipeline/ipg_pipeline.py *)

find_closest_manufacturer(model_value, entities) ==
    LET manufacturers == entities.manufacturer
        models == entities.model
        closest(matches) ==
            IF matches = {} THEN manufacturers[1].value
            ELSE MinByDistance(manufacturers,
                               models[CHOOSE i \in matches :
                                          \A j \in matches : i <= j].position).value
    IN IF manufacturers = <<>> THEN ""
       ELSE closest({i \in DOMAIN models :
                        \/ models[i].value = model_value
                        \/ Contains(LowerWord(model_value),
                                    LowerWord(models[i].original_value))})

\* the sub-queries of one binding: one for each of its parameter keys
BindingSubQueries(binding, entities, s) ==
    LET eq_types == entities.equipment_type
    IN [k \in DOMAIN binding.parameters |->
           [manufacturer |-> find_closest_manufacturer(binding.model, entities),
            model |-> binding.model,
            equipment_type |-> IF eq_types # <<>> THEN eq_types[1].value ELSE None,
            parameter |-> binding.parameters[k],
            original_part |-> Slice(s, 0, Min(100, Len(s)))]]

\* mutant of build_final_routing: one sub-query for each binding
build_final_routing_per_binding(llm_result, entities, s) ==
    LET bindings == llm_result.param_bindings
        strategy(sub_queries) ==
            IF Len(sub_queries) = 1
            THEN [recommended_strategy |-> "single_query", sub_query |-> sub_queries[1]]
            ELSE [recommended_strategy |-> "multi_query", sub_queries |-> sub_queries]
    IN IF bindings = <<>>
       THEN [recommended_strategy |-> "noEntities",
             message |-> "No valid parameter bindings found",
             options |-> <<>>]
       ELSE strategy([i \in DOMAIN bindings |->
                         BindingSubQueries(bindings[i], entities, s)[1]])

\* mutant of build_final_routing: the test for empty bindings is missing
build_final_routing_no_guard(llm_result, entities, s) ==
    LET bindings == llm_result.param_bindings
        strategy(sub_queries) ==
            IF Len(sub_queries) = 1
            THEN [recommended_strategy |-> "single_query", sub_query |-> sub_queries[1]]
            ELSE [recommended_strategy |-> "multi_query", sub_queries |-> sub_queries]
    IN strategy(Concat([i \in DOMAIN bindings |->
                           BindingSubQueries(bindings[i], entities, s)]))

build_final_routing(llm_result, entities, s) ==
    LET bindings == llm_result.param_bindings
        strategy(sub_queries) ==
            IF Len(sub_queries) = 1
            THEN [recommended_strategy |-> "single_query", sub_query |-> sub_queries[1]]
            ELSE [recommended_strategy |-> "multi_query", sub_queries |-> sub_queries]
    IN IF bindings = <<>>
       THEN [recommended_strategy |-> "noEntities",
             message |-> "No valid parameter bindings found",
             options |-> <<>>]
       ELSE strategy(Concat([i \in DOMAIN bindings |->
                                BindingSubQueries(bindings[i], entities, s)]))

\* ", ".join(models)
RECURSIVE JoinComma(_)
JoinComma(models) ==
    IF Len(models) = 1 THEN models[1]
    ELSE models[1] \o ", " \o JoinComma(Tail(models))

\* the keys of the bindings: llm_confirmed_params, a set
ConfirmedParams(bindings) ==
    UNION {Range(bindings[i].parameters) : i \in DOMAIN bindings}

\* the orders a for loop can visit a set of strings in
Orderings(S) == {order \in [1..Cardinality(S) -> S] : Range(order) = S}

\* order is the order the loop visits llm_confirmed_params in
build_parameters_from_llm(fuzzy_parameters, llm_result, order) ==
    LET bindings == llm_result.param_bindings
        param_to_models(key) ==
            LET with_key == SelectSeq(bindings, LAMBDA b : key \in Range(b.parameters))
            IN [i \in DOMAIN with_key |-> with_key[i].model]
        found(key) == {i \in DOMAIN fuzzy_parameters : fuzzy_parameters[i].key = key}
        fuzzy_by_key(key) ==
            fuzzy_parameters[CHOOSE i \in found(key) : \A j \in found(key) : j <= i]
        param(key) ==
            IF found(key) # {} THEN fuzzy_by_key(key)
            ELSE [key |-> key, confidence |-> 90, match_type |-> "llm_detected",
                  synonym_matched |-> "detected by LLM from context"]
        mapped(key) ==
            LET models == param_to_models(key)
            IN IF Len(models) > 1
               THEN DictPut(DictPut(param(key), "batch", TRUE),
                            "mapped_to_model", JoinComma(models))
               ELSE DictPut(param(key), "mapped_to_model", models[1])
    IN [i \in DOMAIN order |-> mapped(order[i])]

\* detect_question_type is imported from llm_processor.py, which does not
\* define it: the question types it can give, by the keyword patterns; for a
\* text with both patterns either type
detect_question_type(words) ==
    IF detect_parallel_query(words) /\ detect_compatibility_query(words)
    THEN {"parallel", "compat"}
    ELSE IF detect_parallel_query(words) THEN {"parallel"}
    ELSE IF detect_compatibility_query(words) THEN {"compat"}
    ELSE {"general"}

\* LLMProcessor.process_question of the rule-based processor: the three
\* functions of llm_processor.py, as its self-test combines them
LLMProcessor_process_question(entities, words) ==
    LET result(st) ==
            [status |-> st,
             intent |-> determine_intent_logic(st, entities),
             param_bindings |-> build_param_bindings_logic(entities)]
    IN result(determine_status(entities, words))

\* mutant of llm_result: compatibility questions go through the processor too
llm_result_always_processed(qtype, entities, words) ==
    LLMProcessor_process_question(entities, words)

\* IPGPipeline.process, step 3
llm_result(qtype, entities, words) ==
    IF qtype = "compat"
    THEN [status |-> "complex", intent |-> "compatibility_query", param_bindings |-> <<>>]
    ELSE LLMProcessor_process_question(entities, words)

-----------------------------------------------------------------------------
(* The classifier driven as the self-test of llm_processor.py drives it *)

Texts == SeqsUpTo(Vocabulary, MaxWords)

\* the self-test's entity lists: models 10 characters apart, parameters between them
ModelValues == {None, "us5000"}

ModelAt(v, i) == [value |-> v, position |-> 10 * i]

ParamAt(k, i) == [key |-> k, position |-> 10 * i - 5]

TestModels ==
    {[i \in DOMAIN vs |-> ModelAt(vs[i], i)] : vs \in SeqsUpTo(ModelValues, MaxModels)}

TestParams ==
    {[i \in 1..n |-> ParamAt("weight_kg", i)] : n \in 0..MaxParams}

NoRouting == [recommended_strategy |-> Unset]

\* no single-function driver has run
ThreadsIdle == requests = Unset /\ registry_log = Unset

MaintenanceIdle == canon_backup = Unset /\ training_disk = Unset /\ workflow = Unset

ScriptsIdle == raw_text = <<>> /\ MaintenanceIdle

RegistryIdle ==
    /\ canon_file = Unset
    /\ metadata_file = Unset
    /\ canon_cache = Unset
    /\ metadata_cache = Unset
    /\ lookup = Unset
    /\ ThreadsIdle
    /\ ScriptsIdle

FunctionsIdle == text_segments = <<>> /\ sorted_results = <<>> /\ RegistryIdle

InitClassify ==
    /\ mode = "classify"
    /\ pc = "input"
    /\ text \in Texts
    /\ \E ms \in TestModels, ps \in TestParams :
           extracted_entities =
               [manufacturer |-> <<>>, model |-> ms,
                equipment_type |-> <<>>, parameters |-> ps]
    /\ params_extracted = <<>>
    /\ extract_routing = NoRouting
    /\ status = Unset
    /\ intent = Unset
    /\ question_type = Unset
    /\ param_bindings = <<>>
    /\ routing = NoRouting
    /\ FunctionsIdle

\* llm_processor.py __main__: status = determine_status(...); intent = ...
RunTestCase ==
    /\ mode = "classify"
    /\ pc = "input"
    /\ status' = determine_status(extracted_entities, text)
    /\ intent' = determine_intent_logic(status', extracted_entities)
    /\ pc' = "done"
    /\ UNCHANGED <<mode, text, extracted_entities, params_extracted, extract_routing,
                   question_type, param_bindings, routing, function_vars>>

Next == RunTestCase

Spec == InitClassify /\ [][Next]_vars

-----------------------------------------------------------------------------
(* IPGPipeline.process, step by step *)

QueryTexts == SeqsUpTo(QueryVocabulary, MaxQueryWords)

NoEntityLists ==
    [manufacturer |-> <<>>, model |-> <<>>, equipment_type |-> <<>>, parameters |-> <<>>]

InitPipeline ==
    /\ mode = "pipeline"
    /\ pc = "input"
    /\ text \in QueryTexts
    /\ extracted_entities = NoEntityLists
    /\ params_extracted = <<>>
    /\ extract_routing = NoRouting
    /\ status = Unset
    /\ intent = Unset
    /\ question_type = Unset
    /\ param_bindings = <<>>
    /\ routing = NoRouting
    /\ FunctionsIdle

\* step 1
DetectQuestionType ==
    /\ mode = "pipeline"
    /\ pc = "input"
    /\ question_type' \in detect_question_type(Words(text))
    /\ pc' = "typed"
    /\ UNCHANGED <<mode, text, extracted_entities, params_extracted, extract_routing,
                   status, intent, param_bindings, routing, function_vars>>

\* step 2: process_question of parameter_extractor.py; an exception ends the request
ExtractEntities ==
    /\ mode = "pipeline"
    /\ pc = "typed"
    /\ LET store(extraction_result) ==
               /\ extracted_entities' = extraction_result.extracted_entities
               /\ params_extracted' = extraction_result.extracted_entities.parameters
               /\ extract_routing' = extraction_result.routing
               /\ pc' = IF IsRaised(extraction_result.routing) THEN "raised"
                        ELSE "extracted"
       IN store(process_question(text))
    /\ UNCHANGED <<mode, text, status, intent, question_type, param_bindings, routing,
                   function_vars>>

\* steps 3 to 6
BuildRouting ==
    /\ mode = "pipeline"
    /\ pc = "extracted"
    /\ LET store(result) ==
               /\ \E order \in Orderings(ConfirmedParams(result.param_bindings)) :
                      extracted_entities' =
                          [extracted_entities EXCEPT
                              !.parameters = build_parameters_from_llm(
                                                 extracted_entities.parameters, result, order)]
               /\ status' = result.status
               /\ intent' = result.intent
               /\ param_bindings' = result.param_bindings
               /\ routing' = build_final_routing(result, extracted_entities', Join(text))
       IN store(llm_result(question_type, extracted_entities, Words(text)))
    /\ pc' = "done"
    /\ UNCHANGED <<mode, text, params_extracted, extract_routing, question_type,
                   function_vars>>

NextPipeline == DetectQuestionType \/ ExtractEntities \/ BuildRouting

SpecPipeline == InitPipeline /\ [][NextPipeline]_vars

\* queries long enough for a parameter to stand nearer to the model of the
\* other segment than to the model of its own
BinderVocabulary == {"US5000", "A48100", "weight", "and", "Deye"}

BinderTexts == SeqsUpTo(BinderVocabulary, MaxBinderWords)

InitBinder ==
    /\ mode = "pipeline"
    /\ pc = "input"
    /\ text \in BinderTexts
    /\ extracted_entities = NoEntityLists
    /\ params_extracted = <<>>
    /\ extract_routing = NoRouting
    /\ status = Unset
    /\ intent = Unset
    /\ question_type = Unset
    /\ param_bindings = <<>>
    /\ routing = NoRouting
    /\ FunctionsIdle

SpecBinder == InitBinder /\ [][NextPipeline]_vars

-----------------------------------------------------------------------------
(* split_into_segments applied to raw strings *)

\* the pieces raw strings are made of: a word character, a blank, a
\* punctuation separator and a conjunction in mixed case
SegmentPieces == {"x", " ", ",", "Or"}

RECURSIVE Glue(_)
Glue(pieces) == IF pieces = <<>> THEN "" ELSE Head(pieces) \o Glue(Tail(pieces))

RawTexts == {Glue(pieces) : pieces \in SeqsUpTo(SegmentPieces, MaxPieces)}

RequestIdle ==
    /\ extracted_entities = NoEntityLists
    /\ params_extracted = <<>>
    /\ extract_routing = NoRouting
    /\ status = Unset
    /\ intent = Unset
    /\ question_type = Unset
    /\ param_bindings = <<>>
    /\ routing = NoRouting

InitSegments ==
    /\ mode = "segments"
    /\ pc = "input"
    /\ text \in RawTexts
    /\ RequestIdle
    /\ FunctionsIdle

Segment ==
    /\ mode = "segments"
    /\ pc = "input"
    /\ text_segments' = split_into_segments(text)
    /\ pc' = "done"
    /\ UNCHANGED <<mode, text, request_vars, sorted_results, registry_vars>>

NextSegments == Segment

SpecSegments == InitSegments /\ [][NextSegments]_vars

-----------------------------------------------------------------------------
(* find_parameters applied to texts of glossary synonyms *)

MatcherTexts == SeqsUpTo(MatcherVocabulary, MaxMatcherWords)

InitMatcher ==
    /\ mode = "matcher"
    /\ pc = "input"
    /\ text \in MatcherTexts
    /\ RequestIdle
    /\ FunctionsIdle

FindParameters ==
    /\ mode = "matcher"
    /\ pc = "input"
    /\ sorted_results' = accepted_results(text, MatcherMaps)
    /\ params_extracted' = resolve_conflicts(sorted_results')
    /\ pc' = "done"
    /\ UNCHANGED <<mode, text, extracted_entities, extract_routing, status, intent,
                   question_type, param_bindings, routing, text_segments,
                   registry_vars>>

NextMatcher == FindParameters

SpecMatcher == InitMatcher /\ [][NextMatcher]_vars

\* find_parameters applied to synonyms with and without their endings
SuffixTexts == SeqsUpTo(SuffixVocabulary, MaxSuffixWords)

InitSuffix ==
    /\ mode = "matcher"
    /\ pc = "input"
    /\ text \in SuffixTexts
    /\ RequestIdle
    /\ FunctionsIdle

SpecSuffix == InitSuffix /\ [][NextMatcher]_vars

\* find_parameters applied to texts that repeat a synonym
OccurrenceTexts == SeqsUpTo(OccurrenceVocabulary, MaxOccurrenceWords)

InitOccurrences ==
    /\ mode = "matcher"
    /\ pc = "input"
    /\ text \in OccurrenceTexts
    /\ RequestIdle
    /\ FunctionsIdle

SpecOccurrences == InitOccurrences /\ [][NextMatcher]_vars

-----------------------------------------------------------------------------
(* core/normalization: the registry files and their loaders *)

\* all subsequences of a sequence, the order kept
RECURSIVE SubSeqsOf(_)
SubSeqsOf(s) ==
    IF s = <<>> THEN {<<>>}
    ELSE LET rest == SubSeqsOf(Tail(s))
         IN rest \cup {<<Head(s)>> \o r : r \in rest}

\* lines a canon_models.txt begins with: a comment, a blank line and a line
\* without an arrow
CanonHeader == <<"# models", " ", "junk">>

\* mapping lines of a canon_models.txt: with and without blanks around the
\* arrow (two of them for one lower-case key), with nothing after the arrow
\* and with nothing before it
CanonLines ==
    <<"US5000 -> us5000", "us5000->US5000-B", "Old ->", "-> ghost">>

\* rows an equipment_models_named.csv is made of: an active model, an
\* inactive one and a row without a model code
MetadataRows ==
    <<[model_code |-> " US5000", manufacturer_id |-> "Pylontech",
       equipment_type_id |-> "Battery", is_active |-> "1"],
      [model_code |-> "A48100", manufacturer_id |-> "Dyness",
       equipment_type_id |-> "battery", is_active |-> "0"],
      [model_code |-> "", manufacturer_id |-> "Deye",
       equipment_type_id |-> "inverter", is_active |-> "1"]>>

\* the read that fails: none
NoError == -1

\* canon_models.txt: absent, present but not readable, or some of the lines
CanonFiles ==
    {[exists |-> FALSE, readable |-> FALSE, lines |-> <<>>],
     [exists |-> TRUE, readable |-> FALSE, lines |-> CanonHeader \o CanonLines]}
    \cup {[exists |-> TRUE, readable |-> TRUE, lines |-> CanonHeader \o l] :
             l \in SubSeqsOf(CanonLines)}

\* equipment_models_named.csv: absent, or some of the rows and the number of
\* rows read before a read fails
MetadataFiles ==
    {[exists |-> FALSE, rows |-> <<>>, error_after |-> NoError]}
    \cup UNION {{[exists |-> TRUE, rows |-> r, error_after |-> e] :
                     e \in {NoError} \cup 0..Len(r)} : r \in SubSeqsOf(MetadataRows)}

\* model names and model codes the lookups are asked for
ModelNames == {"", " ", "US5000", "us5000", " Us5000 ", "Old", "junk", "XYZ"}

ModelCodes == {"", "US5000", "us5000 ", "A48100", "XYZ"}

\* an empty dict
EmptyDict == [k \in {} |-> ""]

\* d[k] = v
Put(d, k, v) == [x \in DOMAIN d \cup {k} |-> IF x = k THEN v ELSE d[x]]

\* s.find(sub) where sub is in s
FindFirst(s, sub) ==
    CHOOSE i \in 0..(Len(s) - Len(sub)) :
        /\ Slice(s, i, i + Len(sub)) = sub
        /\ \A j \in 0..(i - 1) : Slice(s, j, j + Len(sub)) # sub

\* the body of the loop over the lines of the file
CanonLine(mapping, line) ==
    LET raw == Strip(line)
        parsed(at) ==
            LET original == Strip(Slice(raw, 0, at))
                normalized == Strip(Slice(raw, at + 2, Len(raw)))
            IN Put(mapping, LowerWord(original), normalized)
    IN IF raw = "" \/ StartsWith(raw, "#") THEN mapping
       ELSE IF ~Contains(raw, "->") THEN mapping
       ELSE parsed(FindFirst(raw, "->"))

RECURSIVE CanonLoop(_, _)
CanonLoop(mapping, lines) ==
    IF lines = <<>> THEN mapping
    ELSE CanonLoop(CanonLine(mapping, Head(lines)), Tail(lines))

\* load_canonical_models of a file that exists and can be read
load_canonical_models(lines) == CanonLoop(EmptyDict, lines)

\* the body of the loop over the rows of the csv.DictReader
MetadataRow(metadata, row) ==
    LET model_code == LowerWord(Strip(row.model_code))
        manufacturer == LowerWord(Strip(row.manufacturer_id))
        equipment_type == LowerWord(Strip(row.equipment_type_id))
        is_active == Strip(row.is_active)
    IN IF model_code # "" /\ is_active = "1"
       THEN Put(metadata, model_code,
                [manufacturer |-> manufacturer, equipment_type |-> equipment_type])
       ELSE metadata

RECURSIVE MetadataLoop(_, _)
MetadataLoop(metadata, rows) ==
    IF rows = <<>> THEN metadata
    ELSE MetadataLoop(MetadataRow(metadata, Head(rows)), Tail(rows))

\* load_model_metadata: an absent file gives the empty dict with a warning;
\* an exception while reading is caught and what was read so far is returned
load_model_metadata(file) ==
    IF ~file.exists THEN EmptyDict
    ELSE IF file.error_after = NoError THEN MetadataLoop(EmptyDict, file.rows)
    ELSE MetadataLoop(EmptyDict, SubSeq(file.rows, 1, file.error_after))

Unloaded == [loaded |-> FALSE, entries |-> EmptyDict]

Loaded(entries) == [loaded |-> TRUE, entries |-> entries]

NoCall == [fn |-> "", arg |-> "", raised |-> "", value |-> None, metadata |-> NoMetadata]

InitRegistry ==
    /\ mode = "registry"
    /\ pc = "input"
    /\ text = <<>>
    /\ RequestIdle
    /\ text_segments = <<>>
    /\ sorted_results = <<>>
    /\ canon_file \in CanonFiles
    /\ metadata_file \in MetadataFiles
    /\ canon_cache = Unloaded
    /\ metadata_cache = Unloaded
    /\ lookup = NoCall
    /\ ThreadsIdle
    /\ ScriptsIdle

\* what a call of load_canonical_models() raises: nothing when the result is
\* cached, FileNotFoundError by the os.path.exists test, whatever open() or
\* the read raises otherwise
CanonRaises ==
    IF canon_cache.loaded THEN ""
    ELSE IF ~canon_file.exists THEN "FileNotFoundError"
    ELSE IF ~canon_file.readable THEN "OSError"
    ELSE ""

\* the cache after a call that returned
CanonCached ==
    IF canon_cache.loaded THEN canon_cache
    ELSE Loaded(load_canonical_models(canon_file.lines))

MetadataCached ==
    IF metadata_cache.loaded THEN metadata_cache
    ELSE Loaded(load_model_metadata(metadata_file))

Returned(call) ==
    /\ lookup' = call
    /\ pc' = (IF call.raised = "" THEN "done" ELSE "raised")
    /\ UNCHANGED <<mode, text, request_vars, text_segments, sorted_results,
                   canon_file, metadata_file, thread_vars, script_vars>>

\* get_all_canonical_models() / load_canonical_models()
LoadCanonicalModels ==
    /\ mode = "registry"
    /\ canon_cache' = (IF CanonRaises = "" THEN CanonCached ELSE canon_cache)
    /\ UNCHANGED metadata_cache
    /\ Returned([NoCall EXCEPT !.fn = "load_canonical_models", !.raised = CanonRaises])

\* normalize_model(model_name): an empty name returns before the registry is
\* loaded
NormalizeModel ==
    /\ mode = "registry"
    /\ \E model_name \in ModelNames :
        LET raised == IF model_name = "" THEN "" ELSE CanonRaises
            cached == IF model_name = "" \/ raised # "" THEN canon_cache ELSE CanonCached
        IN /\ canon_cache' = cached
           /\ UNCHANGED metadata_cache
           /\ Returned([NoCall EXCEPT
                  !.fn = "normalize_model", !.arg = model_name, !.raised = raised,
                  !.value = IF raised = "" THEN normalize_model_with(cached.entries, model_name)
                            ELSE None])

\* load_model_metadata()
LoadModelMetadata ==
    /\ mode = "registry"
    /\ metadata_cache' = MetadataCached
    /\ UNCHANGED canon_cache
    /\ Returned([NoCall EXCEPT !.fn = "load_model_metadata"])

\* get_model_metadata(canonical_model)
GetModelMetadata ==
    /\ mode = "registry"
    /\ \E canonical_model \in ModelCodes :
        LET cached == IF canonical_model = "" THEN metadata_cache ELSE MetadataCached
        IN /\ metadata_cache' = cached
           /\ UNCHANGED canon_cache
           /\ Returned([NoCall EXCEPT
                  !.fn = "get_model_metadata", !.arg = canonical_model,
                  !.metadata = get_model_metadata_from(cached.entries, canonical_model)])

NextRegistry ==
    \/ LoadCanonicalModels
    \/ NormalizeModel
    \/ LoadModelMetadata
    \/ GetModelMetadata

SpecRegistry == InitRegistry /\ [][NextRegistry]_vars

-----------------------------------------------------------------------------
(* core/normalization: concurrent requests that use the cached loaders.     *)
(* functools.lru_cache(None) looks the key up, calls the function on a      *)
(* miss and stores what it returned; the look-up and the store are atomic,  *)
(* the call is not, and an exception is not stored.                         *)

\* the request threads of the server (the endpoints are plain def functions)
Threads == 1..MaxRequests

Loaders == {"load_canonical_models", "load_model_metadata"}

\* the files the concurrent requests find: absent, or with all their lines
ThreadCanonFiles ==
    {[exists |-> FALSE, readable |-> FALSE, lines |-> <<>>],
     [exists |-> TRUE, readable |-> TRUE, lines |-> CanonHeader \o CanonLines]}

ThreadMetadataFiles ==
    {[exists |-> FALSE, rows |-> <<>>, error_after |-> NoError],
     [exists |-> TRUE, rows |-> MetadataRows, error_after |-> NoError]}

CacheOf(fn) == IF fn = "load_canonical_models" THEN canon_cache ELSE metadata_cache

InitConcurrent ==
    /\ mode = "concurrent"
    /\ pc = "input"
    /\ text = <<>>
    /\ RequestIdle
    /\ text_segments = <<>>
    /\ sorted_results = <<>>
    /\ canon_file \in ThreadCanonFiles
    /\ metadata_file \in ThreadMetadataFiles
    /\ canon_cache = Unloaded
    /\ metadata_cache = Unloaded
    /\ lookup = NoCall
    /\ requests \in [Threads -> {[fn |-> fn, pc |-> "call", table |-> EmptyDict] :
                                    fn \in Loaders}]
    /\ registry_log = [fn \in Loaders |-> [runs |-> 0, writes |-> 0]]
    /\ ScriptsIdle

\* the wrapper's look-up: a hit returns the cached table, a miss goes on to
\* call the function
CacheLookup(t) ==
    /\ mode = "concurrent"
    /\ requests[t].pc = "call"
    /\ requests' =
           [requests EXCEPT ![t] =
               IF CacheOf(requests[t].fn).loaded
               THEN [@ EXCEPT !.pc = "returned",
                              !.table = CacheOf(requests[t].fn).entries]
               ELSE [@ EXCEPT !.pc = "body"]]
    /\ UNCHANGED <<mode, pc, text, request_vars, text_segments, sorted_results,
                   canon_file, metadata_file, canon_cache, metadata_cache, lookup,
                   registry_log, script_vars>>

\* the function's body, on a dict of its own: load_canonical_models raises
\* for a file that is absent or cannot be read
RunBody(t) ==
    /\ mode = "concurrent"
    /\ requests[t].pc = "body"
    /\ registry_log' = [registry_log EXCEPT ![requests[t].fn].runs = @ + 1]
    /\ requests' =
           [requests EXCEPT ![t] =
               IF @.fn = "load_canonical_models"
               THEN IF canon_file.exists /\ canon_file.readable
                    THEN [@ EXCEPT !.pc = "store",
                                   !.table = load_canonical_models(canon_file.lines)]
                    ELSE [@ EXCEPT !.pc = "raised"]
               ELSE [@ EXCEPT !.pc = "store",
                              !.table = load_model_metadata(metadata_file)]]
    /\ UNCHANGED <<mode, pc, text, request_vars, text_segments, sorted_results,
                   canon_file, metadata_file, canon_cache, metadata_cache, lookup,
                   script_vars>>

\* the wrapper's store of what the function returned
StoreResult(t) ==
    /\ mode = "concurrent"
    /\ requests[t].pc = "store"
    /\ IF requests[t].fn = "load_canonical_models"
       THEN canon_cache' = Loaded(requests[t].table) /\ UNCHANGED metadata_cache
       ELSE metadata_cache' = Loaded(requests[t].table) /\ UNCHANGED canon_cache
    /\ registry_log' = [registry_log EXCEPT ![requests[t].fn].writes = @ + 1]
    /\ requests' = [requests EXCEPT ![t].pc = "returned"]
    /\ UNCHANGED <<mode, pc, text, request_vars, text_segments, sorted_results,
                   canon_file, metadata_file, lookup, script_vars>>

NextConcurrent ==
    \E t \in Threads :
        \/ CacheLookup(t)
        \/ RunBody(t)
        \/ StoreResult(t)

SpecConcurrent == InitConcurrent /\ [][NextConcurrent]_vars

-----------------------------------------------------------------------------
(* Claims about the classifier, checked under Spec *)

Classified == mode = "classify" /\ pc = "done"

ValidModelCount == Cardinality({i \in DOMAIN extracted_entities.model :
                                   extracted_entities.model[i].value # None})

ParamCount == Len(extracted_entities.parameters)

C2_PriorityOrder ==
    Classified =>
        /\ detect_parallel_query(text) => status = "parallel"
        /\ (~detect_parallel_query(text) /\ detect_compatibility_query(text))
               => status = "compat"
        /\ (~detect_parallel_query(text) /\ ~detect_compatibility_query(text))
               => status \in {"simple", "complex"}

\* a text matching both patterns, with entities the counts would make simple
C2_Witness ==
    /\ Classified
    /\ detect_parallel_query(text)
    /\ detect_compatibility_query(text)
    /\ ValidModelCount = 1
    /\ ParamCount = 1
    /\ status = "parallel"

\* C3: without a parallel or compatibility pattern the status is simple exactly
\* when 1 <= validModels <= 2 and 1 <= paramCount <= 2, and complex otherwise.
C3_SimpleIffCountsInRange ==
    (Classified /\ ~detect_parallel_query(text) /\ ~detect_compatibility_query(text))
        => LET inRange == /\ 1 <= ValidModelCount /\ ValidModelCount <= 2
                          /\ 1 <= ParamCount /\ ParamCount <= 2
           IN /\ inRange => status = "simple"
              /\ ~inRange => status = "complex"

\* three resolved models and one parameter: complex because of the model count
C3_Witness ==
    /\ Classified
    /\ ~detect_parallel_query(text)
    /\ ~detect_compatibility_query(text)
    /\ ValidModelCount = 3
    /\ ParamCount = 1
    /\ status = "complex"

\* C4: a MODEL entity with a null canonical value never counts: a query whose
\* MODEL entities are all unresolved is never simple, however many parameters.
C4_UnresolvedModelsNeverSimple ==
    (Classified /\ ValidModelCount = 0) => status # "simple"

\* one unresolved model, one parameter, no keyword: complex
C4_Witness ==
    /\ Classified
    /\ ~detect_parallel_query(text)
    /\ ~detect_compatibility_query(text)
    /\ Len(extracted_entities.model) = 1
    /\ ValidModelCount = 0
    /\ ParamCount = 1
    /\ status = "complex"

-----------------------------------------------------------------------------
(* Claims about the pipeline, checked under SpecPipeline *)

\* process_question has returned
Extracted == mode = "pipeline" /\ pc \in {"extracted", "done"}

\* IPGPipeline.process has built its routing
Routed == mode = "pipeline" /\ pc = "done"

\* the MODEL entities of the query that have a canonical value
ResolvedModels ==
    SelectSeq(extracted_entities.model, LAMBDA m : m.canonical \notin {None, ""})

ResolvedValues == {ResolvedModels[i].canonical : i \in DOMAIN ResolvedModels}

\* the sub-queries a routing decision carries
SubQueriesOf(r) ==
    IF "sub_query" \in DOMAIN r THEN <<r.sub_query>>
    ELSE IF "sub_queries" \in DOMAIN r THEN r.sub_queries
    ELSE <<>>

Strategies == {"single_query", "multi_query", "noEntities"}

\* C5 (as stated): for every query with exactly one resolved model and exactly
\* one parameter match, build_routing gives strategy single_query and the
\* single sub-query's model is that model's canonical value.
C5_OneModelOneParamGivesSingleQuery ==
    (Extracted /\ Len(ResolvedModels) = 1 /\ Len(params_extracted) = 1)
        => /\ extract_routing.recommended_strategy = "single_query"
           /\ extract_routing.sub_query.model = ResolvedModels[1].canonical

NothingExtracted ==
    /\ extracted_entities.manufacturer = <<>>
    /\ extracted_entities.model = <<>>
    /\ extracted_entities.equipment_type = <<>>
    /\ params_extracted = <<>>

BindingPairs ==
    Concat([i \in DOMAIN param_bindings |->
               [k \in DOMAIN param_bindings[i].parameters |->
                   <<param_bindings[i].model, param_bindings[i].parameters[k]>>]])

-----------------------------------------------------------------------------
(* Claims about segmentation, checked under SpecSegments *)

Segmented == mode = "segments" /\ pc = "done"

\* the matches of CONJUNCTION_REGEX in the text: the separators
Separators == FindIter(text, 0)

Blank(s) == \A i \in 1..Len(s) : SubSeq(s, i, i) = " "

\* the text between two offsets with the blanks at both ends removed is t
StrippedSlice(s, a, b, t) ==
    \E c \in a..b : \E d \in c..b :
        /\ t = Slice(s, c, d)
        /\ Blank(Slice(s, a, c))
        /\ Blank(Slice(s, d, b))
        /\ (c < d => CharAt(s, c) # " " /\ CharAt(s, d - 1) # " ")
        /\ (c = d => c = a)

\* every character outside the segments' ranges is inside a separator
OnlySeparatorsDropped ==
    \A p \in 0..(Len(text) - 1) :
        \/ \E i \in DOMAIN text_segments :
               text_segments[i].start <= p /\ p < text_segments[i].end
        \/ \E j \in DOMAIN Separators : Separators[j].start <= p /\ p < Separators[j].end

\* the whole text returned as the one segment
WholeText == text_segments = <<[text |-> text, start |-> 0, end |-> Len(text)]>>

\* C11 (as stated): segmentation is lossless: every segment's text equals
\* text[start:end], and every character outside the segments belongs to a
\* separator, so the segment texts with the separators between them are the
\* input text.
C11_SegmentTextsAreSlices ==
    Segmented =>
        /\ \A i \in DOMAIN text_segments :
               text_segments[i].text =
                   Slice(text, text_segments[i].start, text_segments[i].end)
        /\ OnlySeparatorsDropped

\* C11 (amended): every segment's text equals text[start:end] with the blanks
\* at its two ends removed, or the segment is the whole text; every character
\* outside the segments belongs to a separator.
C11_SegmentTextsAreStrippedSlices ==
    Segmented =>
        /\ \/ WholeText
           \/ \A i \in DOMAIN text_segments :
                  StrippedSlice(text, text_segments[i].start, text_segments[i].end,
                                text_segments[i].text)
        /\ OnlySeparatorsDropped

\* a text with a separator and a segment that lost a blank
C11_Witness ==
    /\ Segmented
    /\ Separators # <<>>
    /\ ~WholeText
    /\ \E i \in DOMAIN text_segments :
           text_segments[i].text #
               Slice(text, text_segments[i].start, text_segments[i].end)

\* C12: split_into_segments returns at least one segment; the segments are in
\* increasing start order and do not overlap (0 <= start <= end <= len(text),
\* each end at most the next start); a text without a split point gives one
\* segment spanning [0, len(text)).
C12_SegmentsOrderedAndDisjoint ==
    Segmented =>
        /\ Len(text_segments) >= 1
        /\ \A i \in DOMAIN text_segments :
               /\ 0 <= text_segments[i].start
               /\ text_segments[i].start <= text_segments[i].end
               /\ text_segments[i].end <= Len(text)
        /\ \A i \in 1..(Len(text_segments) - 1) :
               /\ text_segments[i].start < text_segments[i + 1].start
               /\ text_segments[i].end <= text_segments[i + 1].start
        /\ (Separators = <<>> =>
               /\ Len(text_segments) = 1
               /\ text_segments[1].start = 0
               /\ text_segments[1].end = Len(text))

\* a text of blanks only: nothing is kept and the whole text is the segment
C12_Witness ==
    /\ Segmented
    /\ Len(text) > 0
    /\ Blank(text)
    /\ Len(text_segments) = 1

-----------------------------------------------------------------------------
(* Claims about the parameter matcher, checked under SpecMatcher *)

Matched == mode = "matcher" /\ pc = "done"

\* the character ranges [position, end_position) of two matches share a character
RangesOverlap(a, b) == a.position < b.end_position /\ b.position < a.end_position

Retained(r) == \E i \in DOMAIN params_extracted : params_extracted[i] = r

\* the synonyms of the glossary, as written there
GlossarySynonyms ==
    UNION {Range(MatcherGlossary[i].syns) : i \in DOMAIN MatcherGlossary}

KeysOf(results) == {results[i].key : i \in DOMAIN results}

\* the glossary synonyms with the lowercase text or the normalized form of a text
SameForm(item) ==
    {syn \in GlossarySynonyms :
        \/ LowerWord(Strip(syn)) = LowerWord(Strip(item))
        \/ normalize_for_matching(syn) = normalize_for_matching(item)}

\* C17: stripping a known plural or case suffix from a synonym does not change
\* the key it maps to: a text that has the lowercase text or the
\* normalize_for_matching form of a glossary synonym is resolved by the matcher
\* to one key, the key the matcher resolves that synonym to.
C17_SameFormSameKey ==
    Matched /\ Len(text) = 1 =>
        \A syn \in SameForm(text[1]) :
            /\ Cardinality(KeysOf(params_extracted)) = 1
            /\ KeysOf(params_extracted) = KeysOf(find_parameters(<<syn>>, MatcherMaps))


\* the pairs of accepted matches that overlap
OverlappingPairs ==
    {pair \in (DOMAIN sorted_results) \X (DOMAIN sorted_results) :
        /\ pair[1] < pair[2]
        /\ sorted_results[pair[1]] # sorted_results[pair[2]]
        /\ RangesOverlap(sorted_results[pair[1]], sorted_results[pair[2]])}

\* C13: no two matches in the list returned by find_parameters overlap in
\* character range [position, end_position) unless they are at least 50
\* characters apart.
C13_RetainedMatchesDoNotOverlap ==
    Matched =>
        \A i \in DOMAIN params_extracted : \A j \in DOMAIN params_extracted :
            i # j /\ RangesOverlap(params_extracted[i], params_extracted[j])
                => Abs(params_extracted[i].position - params_extracted[j].position) >= 50

\* two accepted matches of different keys overlap and one of them is returned
C13_Witness ==
    /\ Matched
    /\ \E pair \in OverlappingPairs :
           /\ sorted_results[pair[1]].key # sorted_results[pair[2]].key
           /\ Retained(sorted_results[pair[1]]) \/ Retained(sorted_results[pair[2]])

\* of an overlapping pair in position order, the match the resolution prefers:
\* the higher confidence, the first on equal confidence
Preferred(first, second) == IF second.confidence > first.confidence THEN second ELSE first

\* no other accepted match overlaps one of the two or has the key of one
Isolated(i, j) ==
    \A k \in DOMAIN sorted_results \ {i, j} :
        /\ ~RangesOverlap(sorted_results[k], sorted_results[i])
        /\ ~RangesOverlap(sorted_results[k], sorted_results[j])
        /\ sorted_results[k].key # sorted_results[i].key
        /\ sorted_results[k].key # sorted_results[j].key

\* C20 (as stated): when two accepted matches overlap, exactly one of them is
\* in the result of find_parameters: the higher-confidence one, and on equal
\* confidence the one with the earlier start position.
C20_OverlapKeepsThePreferredMatch ==
    Matched =>
        \A pair \in OverlappingPairs :
            /\ Retained(Preferred(sorted_results[pair[1]], sorted_results[pair[2]]))
            /\ ~(Retained(sorted_results[pair[1]]) /\ Retained(sorted_results[pair[2]]))

\* C20 (amended): when two accepted matches overlap, at most one of them is in
\* the result of find_parameters; when no other accepted match overlaps one of
\* them or has the key of one, exactly one of them is in the result: the
\* higher-confidence one, and on equal confidence the one with the earlier
\* start position.
C20_IsolatedOverlapKeepsThePreferredMatch ==
    Matched =>
        \A pair \in OverlappingPairs :
            /\ ~(Retained(sorted_results[pair[1]]) /\ Retained(sorted_results[pair[2]]))
            /\ Isolated(pair[1], pair[2]) =>
                   Retained(Preferred(sorted_results[pair[1]], sorted_results[pair[2]]))

\* an isolated pair of equal confidence: the earlier match is returned
C20_Witness ==
    /\ Matched
    /\ \E pair \in OverlappingPairs :
           /\ Isolated(pair[1], pair[2])
           /\ sorted_results[pair[1]].confidence = sorted_results[pair[2]].confidence
           /\ sorted_results[pair[1]].position < sorted_results[pair[2]].position
           /\ Retained(sorted_results[pair[1]])

-----------------------------------------------------------------------------
(* Claims about the registries, checked under SpecRegistry *)

\* normalize_model has returned
Normalized == mode = "registry" /\ lookup.fn = "normalize_model" /\ lookup.raised = ""

\* the canonical-model registry: what the file holds
Registry ==
    IF canon_file.exists /\ canon_file.readable
    THEN load_canonical_models(canon_file.lines)
    ELSE EmptyDict

RegistryValues == {Registry[k] : k \in DOMAIN Registry}

\* the registry's answer for a model text: the canonical name of the
\* trimmed, lowercased text when that is a key, null otherwise
StrictAnswer(model_text) ==
    LET key == LowerWord(Strip(model_text))
    IN IF key \in DOMAIN Registry THEN Registry[key] ELSE None

\* the model texts that differ from the one looked up in letter case only
CaseVariants == {other \in ModelNames : LowerWord(other) = LowerWord(lookup.arg)}

NeverInvents == lookup.value # None => lookup.value \in RegistryValues

CaseBlind ==
    \A other \in CaseVariants : normalize_model_with(Registry, other) = lookup.value

\* C14 as stated: normalize_model returns the registry's canonical name if
\* and only if the trimmed, lowercased model text is a key of the registry,
\* and null otherwise; it never returns a value that is not a registry value,
\* and texts differing only in letter case get the same result.
C14_StrictForEveryText ==
    Normalized => /\ lookup.value = StrictAnswer(lookup.arg)
                  /\ NeverInvents
                  /\ CaseBlind

\* C14 amended: the same for every model text but the empty one, for which
\* normalize_model returns null whatever the registry holds.
C14_StrictForNonEmptyText ==
    Normalized => /\ lookup.arg # "" => lookup.value = StrictAnswer(lookup.arg)
                  /\ lookup.arg = "" => lookup.value = None
                  /\ NeverInvents
                  /\ CaseBlind

\* a text in mixed case with blanks around it has got its canonical name, and
\* the registry has a key that is not looked up
C14_Witness ==
    /\ Normalized
    /\ lookup.arg # LowerWord(Strip(lookup.arg))
    /\ Strip(lookup.arg) # ""
    /\ lookup.value # None
    /\ \E k \in DOMAIN Registry : k # LowerWord(Strip(lookup.arg))

\* a registry file that is absent or fails to be read
CanonFileFailed == ~canon_file.exists \/ ~canon_file.readable

MetadataFileFailed == ~metadata_file.exists \/ metadata_file.error_after # NoError

\* the last call needed the registry and got an answer
AnsweredByCanon ==
    /\ lookup.fn \in {"load_canonical_models", "normalize_model"}
    /\ lookup.fn = "normalize_model" => lookup.arg # ""
    /\ lookup.raised = ""

AnsweredByMetadata ==
    /\ lookup.fn \in {"load_model_metadata", "get_model_metadata"}
    /\ lookup.fn = "get_model_metadata" => lookup.arg # ""
    /\ lookup.raised = ""

\* C15: when a registry file is missing or unreadable, loading fails with a
\* fatal error: no registry is ever cached from such a file and no lookup
\* that needs the registry is answered.
C15_FailedFileIsFatal ==
    mode = "registry" =>
        /\ CanonFileFailed => ~canon_cache.loaded /\ ~AnsweredByCanon
        /\ MetadataFileFailed => ~metadata_cache.loaded /\ ~AnsweredByMetadata

-----------------------------------------------------------------------------
(* Claims about the intent, checked under Spec *)

\* the intent of a status that is neither compat nor simple
IntentByEntities ==
    IF ParamCount > 0 THEN "multi_model_query"
    ELSE IF Len(extracted_entities.model) > 0 THEN "uncertain"
    ELSE "no_entities"

\* C16 as stated: compat gives compatibility_query; simple gives sql_query;
\* complex with parameters gives multi_model_query; complex with only model
\* entities gives uncertain; every other case, status parallel included,
\* gives no_entities.
C16_IntentLooksAtEntitiesOfComplexOnly ==
    Classified =>
        intent = CASE status = "compat" -> "compatibility_query"
                   [] status = "simple" -> "sql_query"
                   [] status = "complex" -> IntentByEntities
                   [] OTHER -> "no_entities"

\* C16 amended: compat gives compatibility_query; simple gives sql_query;
\* every other status, complex and parallel alike, gives multi_model_query
\* with parameters, uncertain with only model entities and no_entities with
\* neither.
C16_IntentLooksAtEntitiesOfComplexAndParallel ==
    Classified =>
        intent = CASE status = "compat" -> "compatibility_query"
                   [] status = "simple" -> "sql_query"
                   [] OTHER -> IntentByEntities

\* a parallel query with a parameter has got the intent multi_model_query
C16_Witness ==
    /\ Classified
    /\ status = "parallel"
    /\ ParamCount > 0
    /\ intent = "multi_model_query"

-----------------------------------------------------------------------------
(* Claims about build_routing's strategy, checked under SpecPipeline *)

\* C18: for every query with two or more MODEL entities and a single
\* parameter match, build_routing recommends multi_query, and every sub-query
\* it emits has the fields manufacturer, model and parameter.
C18_ModelsAndOneParameterGiveMultiQuery ==
    (Extracted /\ Len(extracted_entities.model) >= 2 /\ Len(params_extracted) = 1)
        => /\ extract_routing.recommended_strategy = "multi_query"
           /\ \A i \in DOMAIN SubQueriesOf(extract_routing) :
                  {"manufacturer", "model", "parameter"}
                      \subseteq DOMAIN SubQueriesOf(extract_routing)[i]

-----------------------------------------------------------------------------
(* Claims about the binding of parameters to models, checked under SpecBinder *)

QuerySegments == split_into_segments(Join(text))

\* the resolved models of a segment
SegmentModels(segment) == SelectSeq(ResolvedModels, LAMBDA m : InSegment(m, segment))

\* the segments a parameter lies in
OwnSegments(p) ==
    {k \in DOMAIN QuerySegments :
        /\ QuerySegments[k].start <= p.position
        /\ p.end_position <= QuerySegments[k].end}

\* the model a segment-aware binding gives a parameter of segment k
SegmentAwareModel(p, k) ==
    IF SegmentModels(QuerySegments[k]) # <<>>
    THEN MinByDistance(SegmentModels(QuerySegments[k]), p.position).canonical
    ELSE MinByDistance(ResolvedModels, p.position).canonical

SubQueryBinds(p, model) ==
    \E i \in DOMAIN SubQueriesOf(extract_routing) :
        /\ SubQueriesOf(extract_routing)[i].parameter = p.key
        /\ SubQueriesOf(extract_routing)[i].model = model

BindingBinds(p, model) ==
    \E i \in DOMAIN param_bindings :
        /\ param_bindings[i].model = model
        /\ \E k \in DOMAIN param_bindings[i].parameters :
               param_bindings[i].parameters[k] = p.key

\* the sub-queries of map_parameters_to_models are segment-aware
SubQueriesAreSegmentAware ==
    (Extracted /\ ResolvedModels # <<>>)
        => \A n \in DOMAIN params_extracted : \A k \in OwnSegments(params_extracted[n]) :
               SubQueryBinds(params_extracted[n], SegmentAwareModel(params_extracted[n], k))

\* C19: binding is segment-aware: each parameter is bound to the resolved
\* model of its own segment that is nearest to it (the first on ties), even
\* if a resolved model of another segment is nearer, and to the nearest
\* resolved model of the whole query only when its segment holds none; so in
\* the sub-queries of process_question and so in the parameter bindings.
C19_BindingIsSegmentAware ==
    /\ SubQueriesAreSegmentAware
    /\ (Routed /\ ResolvedModels # <<>>)
           => \A n \in DOMAIN params_extracted : \A k \in OwnSegments(params_extracted[n]) :
                  BindingBinds(params_extracted[n], SegmentAwareModel(params_extracted[n], k))

-----------------------------------------------------------------------------
(* Claims about find_parameters on repeated synonyms *)

\* the pairs of retained matches of one key, by their places in the result
SameKeyPairs ==
    {pair \in (DOMAIN params_extracted) \X (DOMAIN params_extracted) :
        /\ pair[1] < pair[2]
        /\ params_extracted[pair[1]].key = params_extracted[pair[2]].key}

\* C21: any two returned matches of the same key start more than 50
\* characters apart, also when the key occurs three or more times.
C21_SameKeyMatchesStartFarApart ==
    Matched =>
        \A pair \in SameKeyPairs :
            Abs(params_extracted[pair[1]].position
                    - params_extracted[pair[2]].position) > 50

\* the same for the texts in which no key is accepted more than twice: it
\* holds, the comparison with the first retained match is then the only one
TwoOccurrencesAreFarApart ==
    Matched /\ (\A r \in Range(sorted_results) :
                   Cardinality({i \in DOMAIN sorted_results :
                                   sorted_results[i].key = r.key}) <= 2)
        => \A pair \in SameKeyPairs :
               Abs(params_extracted[pair[1]].position
                       - params_extracted[pair[2]].position) > 50

-----------------------------------------------------------------------------
(* Claims about the split points of split_into_segments *)

\* a character of a word: neither a blank nor a punctuation separator
IsWordChar(c) == c # "" /\ c \notin {" ", ",", ";"}

\* text[a:b] is a comma, a semicolon, or a conjunction word that stands alone
SeparatorAt(s, a, b) ==
    /\ LowerWord(Slice(s, a, b)) \in ConjunctionWords
    /\ \/ Slice(s, a, b) \in {",", ";"}
       \/ /\ a = 0 \/ ~IsWordChar(CharAt(s, a - 1))
          /\ b = Len(s) \/ ~IsWordChar(CharAt(s, b))

\* text[a:b] lies between two words of the segment
BetweenWordsOf(segment, a, b) ==
    /\ segment.start <= a /\ b <= segment.end
    /\ \E p \in segment.start..(a - 1) : IsWordChar(CharAt(text, p))
    /\ \E q \in b..(segment.end - 1) : IsWordChar(CharAt(text, q))

\* the separators of the text that are left between two words of a segment
UnsplitSeparators ==
    {r \in (0..Len(text)) \X (0..Len(text)) :
        /\ r[1] < r[2]
        /\ r[2] - r[1] <= 3
        /\ SeparatorAt(text, r[1], r[2])
        /\ \E i \in DOMAIN text_segments : BetweenWordsOf(text_segments[i], r[1], r[2])}

\* C22: every comma, semicolon and standalone conjunction word of the text is
\* a split point: no returned segment has one of them between two of its words.
C22_EverySeparatorIsASplitPoint == Segmented => UnsplitSeparators = {}

\* the same for the separators with a blank on each side: these are split points
SpacedSeparatorsAreSplitPoints ==
    Segmented =>
        \A r \in UnsplitSeparators :
            ~(/\ r[1] > 0 /\ CharAt(text, r[1] - 1) = " "
              /\ CharAt(text, r[2]) = " ")

-----------------------------------------------------------------------------
(* Claims about concurrent first use of a registry *)

\* the requests that got a table from the loader
ReturnedFrom(fn) == {t \in Threads : requests[t].fn = fn /\ requests[t].pc = "returned"}

\* every request of a loader got the table the cache holds
RequestsSeeOneTable ==
    mode = "concurrent" =>
        \A fn \in Loaders : \A t \in ReturnedFrom(fn) :
            /\ CacheOf(fn).loaded
            /\ requests[t].table = CacheOf(fn).entries

\* C23: under any interleaving of concurrent requests that trigger the first
\* use of a registry, the load body runs at most once, every request sees the
\* same fully built table, and the registry is not written again after its
\* first completed load.
C23_RegistryIsLoadedOnce ==
    mode = "concurrent" =>
        /\ \A fn \in Loaders :
               /\ registry_log[fn].runs <= 1
               /\ registry_log[fn].writes <= 1
        /\ RequestsSeeOneTable

-----------------------------------------------------------------------------
(* Claims about the entity records of a request *)

\* the model records as process_question creates them, before build_routing
CreatedModels ==
    LET created(models) == [i \in DOMAIN models |-> ModelDict(models[i])]
    IN created(extract_entities_with_metadata(text).MODEL)

\* C24: entities are immutable once created for a query: binding, routing and
\* the later pipeline steps leave the model records and the parameter records
\* as they were created, with no field or list element added, removed or
\* altered.
C24_EntitiesAreImmutable ==
    mode = "pipeline" /\ pc \in {"extracted", "done"} =>
        /\ extracted_entities.model = CreatedModels
        /\ extracted_entities.parameters = params_extracted

-----------------------------------------------------------------------------
(* Claims about the classifier and the binder on the same entities *)

\* the number of (model, parameter key) pairs of a list of bindings
PairCount(bindings) ==
    Len(Concat([i \in DOMAIN bindings |-> bindings[i].parameters]))

\* C26: whenever determine_status returns simple, build_param_bindings_logic
\* produces at least one and at most paramCount (model, parameter) pairs for
\* the same entities, so "simple with empty bindings" does not occur.
C26_SimpleStatusHasBindings ==
    (/\ mode = "pipeline"
     /\ pc = "extracted"
     /\ determine_status(extracted_entities, Words(text)) = "simple")
        => /\ PairCount(build_param_bindings_logic(extracted_entities)) >= 1
           /\ PairCount(build_param_bindings_logic(extracted_entities))
                  <= Len(extracted_entities.parameters)

\* the same for entities whose resolved models all have a non-empty canonical
\* name: the three tests of a valid model then agree
SimpleStatusHasBindingsForNamedModels ==
    (/\ mode = "pipeline"
     /\ pc = "extracted"
     /\ determine_status(extracted_entities, Words(text)) = "simple"
     /\ \A i \in DOMAIN extracted_entities.model : extracted_entities.model[i].value # "")
        => /\ PairCount(build_param_bindings_logic(extracted_entities)) >= 1
           /\ PairCount(build_param_bindings_logic(extracted_entities))
                  <= Len(extracted_entities.parameters)

-----------------------------------------------------------------------------
(* Claims about the number of sub-queries of map_parameters_to_models *)

\* the sub-queries of process_question that ask for a key
SubQueriesFor(key) ==
    {i \in DOMAIN SubQueriesOf(extract_routing) :
        SubQueriesOf(extract_routing)[i].parameter = key}

\* the retained parameter matches of a key
MatchesOf(key) == {n \in DOMAIN params_extracted : params_extracted[n].key = key}

\* every key has as many sub-queries as retained matches
OneSubQueryPerMatch ==
    /\ Len(SubQueriesOf(extract_routing)) = Len(params_extracted)
    /\ \A n \in DOMAIN params_extracted :
           Cardinality(SubQueriesFor(params_extracted[n].key))
               = Cardinality(MatchesOf(params_extracted[n].key))

\* C27: when the query has at least one resolved model, every retained
\* parameter match produces exactly one sub-query: none is left without a
\* sub-query and none is bound in two segments, so there are as many
\* sub-queries as retained parameter matches.
C27_OneSubQueryPerParameter ==
    (Extracted /\ ResolvedModels # <<>>) => OneSubQueryPerMatch

\* the same for the queries whose parameter matches each lie inside a segment
UncutParametersGetOneSubQuery ==
    (/\ Extracted
     /\ ResolvedModels # <<>>
     /\ \A n \in DOMAIN params_extracted : OwnSegments(params_extracted[n]) # {})
        => OneSubQueryPerMatch

-----------------------------------------------------------------------------
(* Claims about the two rule-based binders *)

\* build_param_bindings_logic binds the key of p to the model, for the
\* entities process_question returned
LogicBinds(p, model) ==
    LET binds(bindings) ==
            \E i \in DOMAIN bindings :
                /\ bindings[i].model = model
                /\ p.key \in Range(bindings[i].parameters)
    IN binds(build_param_bindings_logic(extracted_entities))

\* the models either binder can name
BoundModels ==
    {extracted_entities.model[i].value : i \in DOMAIN extracted_entities.model}
        \cup {SubQueriesOf(extract_routing)[i].model :
                  i \in DOMAIN SubQueriesOf(extract_routing)}

BindersAgree ==
    \A n \in DOMAIN params_extracted : \A model \in BoundModels :
        LogicBinds(params_extracted[n], model) <=> SubQueryBinds(params_extracted[n], model)

\* C29: the two rule-based binders agree: for the same text, resolved models
\* and parameter matches, build_param_bindings_logic binds each parameter key
\* to the model that map_parameters_to_models puts in that parameter's
\* sub-query.
C29_BindersAgree ==
    (mode = "pipeline" /\ pc = "extracted" /\ ResolvedModels # <<>>) => BindersAgree

\* the same for the queries of one segment whose models all have a canonical
\* name or none: there the nearest model of the segment is the nearest model
BindersAgreeInOneSegment ==
    (/\ mode = "pipeline"
     /\ pc = "extracted"
     /\ ResolvedModels # <<>>
     /\ Len(QuerySegments) = 1
     /\ \A i \in DOMAIN extracted_entities.model : extracted_entities.model[i].value # "")
        => BindersAgree

-----------------------------------------------------------------------------
(* llm_processor.py: LLMProcessor, whose reply IPGPipeline.process routes *)

\* s.split(sep) for a separator of one character
RECURSIVE SplitOn(_, _)
SplitOn(s, sep) ==
    LET at == Find(s, sep, 0)
    IN IF at = -1 THEN <<s>>
       ELSE <<Slice(s, 0, at)>> \o SplitOn(Slice(s, at + 1, Len(s)), sep)

\* s.split(":", 1)[1].strip(), for a string with a colon
AfterColon(s) == Strip(Slice(s, Find(s, ":", 0) + 1, Len(s)))

\* one MODEL line of the bindings
ParseBinding(line) ==
    LET parts == SplitOn(line, ";")
        params_part == IF Len(parts) > 1 THEN AfterColon(parts[2]) ELSE ""
        split == SplitOn(params_part, ",")
    IN [model |-> AfterColon(parts[1]),
        parameters |-> IF params_part # "" THEN [i \in DOMAIN split |-> Strip(split[i])]
                       ELSE <<>>]

\* the loop of parse_ipg_output over the lines; acc is the result so far with
\* the in_bindings flag
RECURSIVE ParseLines(_, _)
ParseLines(lines, acc) ==
    IF lines = <<>> THEN acc
    ELSE LET line == Strip(Head(lines))
             rest == Tail(lines)
         IN IF StartsWith(line, "STATUS:")
            THEN ParseLines(rest, [acc EXCEPT !.status = AfterColon(line)])
            ELSE IF StartsWith(line, "INTENT:")
            THEN ParseLines(rest, [acc EXCEPT !.intent = AfterColon(line)])
            ELSE IF StartsWith(line, "PARAM_BINDINGS:")
            THEN ParseLines(rest, [acc EXCEPT !.in_bindings = TRUE])
            ELSE IF acc.in_bindings /\ line = "NONE"
            THEN [acc EXCEPT !.param_bindings = <<>>]
            ELSE IF acc.in_bindings /\ StartsWith(line, "MODEL:")
            THEN ParseLines(rest, [acc EXCEPT !.param_bindings =
                                                  Append(@, ParseBinding(line))])
            ELSE ParseLines(rest, acc)

parse_ipg_output(lines) ==
    LET parsed == ParseLines(lines, [status |-> None, intent |-> None,
                                     param_bindings |-> <<>>, in_bindings |-> FALSE])
    IN [status |-> parsed.status, intent |-> parsed.intent,
        param_bindings |-> parsed.param_bindings]

\* the lines a reply is made of, in the format of SYSTEM_PROMPT; every MODEL
\* and PARAMS part has its colon
ReplyLines ==
    {"STATUS: simple", "INTENT: sql_query", "PARAM_BINDINGS:", "NONE",
     "MODEL: us5000; PARAMS: weight_kg",
     "MODEL: a48100; PARAMS: weight_kg, noise_db",
     "MODEL: us5000"}

Replies == SeqsUpTo(ReplyLines, MaxLLMLines)

\* the query the replies are about
LLMQuery == <<"weight", "US5000">>

\* steps 1 and 2 of IPGPipeline.process are done, the reply is about to come
InitLLM ==
    /\ mode = "llm"
    /\ pc = "extracted"
    /\ text = LLMQuery
    /\ raw_text \in Replies
    /\ extracted_entities = process_question(text).extracted_entities
    /\ params_extracted = extracted_entities.parameters
    /\ extract_routing = process_question(text).routing
    /\ status = Unset
    /\ intent = Unset
    /\ question_type = "general"
    /\ param_bindings = <<>>
    /\ routing = NoRouting
    /\ text_segments = <<>>
    /\ sorted_results = <<>>
    /\ canon_file = Unset
    /\ metadata_file = Unset
    /\ canon_cache = Unset
    /\ metadata_cache = Unset
    /\ lookup = Unset
    /\ ThreadsIdle
    /\ MaintenanceIdle

\* step 3: LLMProcessor.process_question returns the parsed reply
ProcessReply ==
    /\ mode = "llm"
    /\ pc = "extracted"
    /\ LET store(result) ==
               /\ status' = result.status
               /\ intent' = result.intent
               /\ param_bindings' = result.param_bindings
       IN store(parse_ipg_output(raw_text))
    /\ pc' = "answered"
    /\ UNCHANGED <<mode, text, extracted_entities, params_extracted, extract_routing,
                   question_type, routing, function_vars>>

\* steps 4 to 6
RouteReply ==
    /\ mode = "llm"
    /\ pc = "answered"
    /\ LET result == [status |-> status, intent |-> intent,
                      param_bindings |-> param_bindings]
       IN /\ \E order \in Orderings(ConfirmedParams(param_bindings)) :
                 extracted_entities' =
                     [extracted_entities EXCEPT
                         !.parameters = build_parameters_from_llm(
                                            extracted_entities.parameters, result, order)]
          /\ routing' = build_final_routing(result, extracted_entities', Join(text))
    /\ pc' = "done"
    /\ UNCHANGED <<mode, text, params_extracted, extract_routing, status, intent,
                   question_type, param_bindings, function_vars>>

NextLLM == ProcessReply \/ RouteReply

SpecLLM == InitLLM /\ [][NextLLM]_vars

\* a routing decision whose payload fits its strategy
StrategyFitsPayload(r) ==
    /\ r.recommended_strategy = "single_query" =>
           "sub_query" \in DOMAIN r /\ "sub_queries" \notin DOMAIN r
    /\ r.recommended_strategy = "multi_query" =>
           "sub_query" \notin DOMAIN r /\ "sub_queries" \in DOMAIN r
              /\ Len(r.sub_queries) >= 2
    /\ r.recommended_strategy = "noEntities" =>
           "sub_query" \notin DOMAIN r /\ "sub_queries" \notin DOMAIN r

\* C28: the strategy and the payload of a routing decision are consistent in
\* every routing function: single_query carries exactly one sub-query,
\* multi_query carries at least two sub-queries, and noEntities carries none.
C28_StrategyFitsPayload ==
    StrategyFitsPayload(extract_routing) /\ StrategyFitsPayload(routing)

\* the same for the requests whose bindings come from the rule-based
\* processor, which makes a binding only for a parameter it binds
RuleBasedStrategyFitsPayload ==
    mode = "pipeline" =>
        StrategyFitsPayload(extract_routing) /\ StrategyFitsPayload(routing)

\* the reply names a model without parameters and nothing else
ReplyBindsNoParameter ==
    /\ mode = "llm"
    /\ pc = "done"
    /\ param_bindings # <<>>
    /\ \A i \in DOMAIN param_bindings : param_bindings[i].parameters = <<>>

-----------------------------------------------------------------------------
(* model_training/scripts/training_workflow.py *)

\* the content of a directory: a model by its version, the rest of a copy or
\* removal that failed half-way, or no directory
Absent == [state |-> "absent", version |-> 0]

Partial == [state |-> "partial", version |-> 0]

Model(v) == [state |-> "model", version |-> v]

IsModel(content) == content.state = "model"

\* self.backup_path: no path (None) or the path of a backup, by its number
NoPath == <<>>

Path(i) == <<i>>

\* what shutil.rmtree can leave of a directory when it raises
AfterFailedRemoval(content) == {content, Partial}

\* what shutil.copytree and Language.to_disk can leave at the destination
\* when they raise
AfterFailedCopy(content) == {content, Partial}

\* __init__ has validated that the model directory exists; a temporary
\* directory can be left from a process that was killed
InitTraining ==
    /\ mode = "training"
    /\ pc = "idle"
    /\ text = <<>>
    /\ RequestIdle
    /\ text_segments = <<>>
    /\ sorted_results = <<>>
    /\ canon_file = Unset
    /\ metadata_file = Unset
    /\ canon_cache = Unset
    /\ metadata_cache = Unset
    /\ lookup = Unset
    /\ ThreadsIdle
    /\ raw_text = <<>>
    /\ canon_backup = Unset
    /\ \E temp \in {Absent, Partial} :
           training_disk = [model |-> Model(1), temp_model |-> temp, backups |-> <<>>]
    /\ workflow = [backup_path |-> NoPath, before |-> Model(1), trained |-> FALSE,
                   result |-> Unset, runs |-> 0]

TrainingUnchanged ==
    UNCHANGED <<mode, text, request_vars, text_segments, sorted_results,
                canon_file, metadata_file, canon_cache, metadata_cache, lookup,
                thread_vars, raw_text, canon_backup>>

\* run() is called
Run ==
    /\ mode = "training"
    /\ pc \in {"idle", "returned"}
    /\ workflow.runs < MaxRuns
    /\ workflow' = [workflow EXCEPT !.before = training_disk.model, !.trained = FALSE,
                                     !.result = Unset, !.runs = @ + 1]
    /\ pc' = "backup"
    /\ UNCHANGED training_disk
    /\ TrainingUnchanged

\* step 1, backup_model: copytree, then self.backup_path = backup_path
BackupModel ==
    /\ mode = "training"
    /\ pc = "backup"
    /\ \/ /\ training_disk.model # Absent
          /\ training_disk' = [training_disk EXCEPT !.backups =
                                                        Append(@, training_disk.model)]
          /\ workflow' = [workflow EXCEPT !.backup_path = Path(Len(training_disk.backups) + 1)]
          /\ pc' = "validate"
       \/ /\ \E left \in {Absent, Partial} :
                 training_disk' =
                     IF left = Absent THEN training_disk
                     ELSE [training_disk EXCEPT !.backups = Append(@, Partial)]
          /\ UNCHANGED workflow
          /\ pc' = "rollback"
    /\ TrainingUnchanged

\* step 2, validate_training_data and the 20% test
ValidateTrainingData ==
    /\ mode = "training"
    /\ pc = "validate"
    /\ \E outcome \in {"valid", "too many invalid", "raised"} :
           /\ pc' = CASE outcome = "valid" -> "train"
                      [] outcome = "too many invalid" -> "returned"
                      [] OTHER -> "rollback"
           /\ workflow' = IF outcome = "too many invalid"
                          THEN [workflow EXCEPT !.result = "False"]
                          ELSE workflow
    /\ UNCHANGED training_disk
    /\ TrainingUnchanged

\* step 3, train_model: the model is loaded, trained and saved to the
\* temporary directory
TrainModel ==
    /\ mode = "training"
    /\ pc = "train"
    /\ \/ /\ IsModel(training_disk.model)
          /\ training_disk' = [training_disk EXCEPT !.temp_model =
                                                        Model(training_disk.model.version + 1)]
          /\ workflow' = [workflow EXCEPT !.trained = TRUE]
          /\ pc' = "replace"
       \/ /\ \E left \in AfterFailedCopy(training_disk.temp_model) :
                 training_disk' = [training_disk EXCEPT !.temp_model = left]
          /\ UNCHANGED workflow
          /\ pc' = "rollback"
    /\ TrainingUnchanged

\* step 4: rmtree(model_path), then move(temp_model_path, model_path)
ReplaceModel ==
    /\ mode = "training"
    /\ pc = "replace"
    /\ \/ /\ training_disk' = [training_disk EXCEPT !.model = training_disk.temp_model,
                                                     !.temp_model = Absent]
          /\ workflow' = [workflow EXCEPT !.result = "True"]
          /\ pc' = "returned"
       \/ /\ \E left \in AfterFailedRemoval(training_disk.model) \cup {Absent} :
                 training_disk' = [training_disk EXCEPT !.model = left]
          /\ UNCHANGED workflow
          /\ pc' = "rollback"
    /\ TrainingUnchanged

\* rollback with a backup, when nothing raises: the disk it leaves
rollback(disk, backup_path) ==
    {[disk EXCEPT !.temp_model = Absent, !.model = disk.backups[backup_path[1]]]}

\* rollback with a backup, when a removal or the copy raises
rollback_raised(disk, backup_path) ==
    {[disk EXCEPT !.temp_model = left] :
        left \in AfterFailedRemoval(disk.temp_model) \ {Absent}}
    \cup {[disk EXCEPT !.temp_model = Absent, !.model = left] :
             left \in AfterFailedRemoval(disk.model) \ {Absent}}
    \cup {[disk EXCEPT !.temp_model = Absent, !.model = left] :
             left \in AfterFailedCopy(Absent)}

\* the except branch of run: rollback(), then return False; an exception of
\* rollback leaves run
Rollback ==
    /\ mode = "training"
    /\ pc = "rollback"
    /\ \/ /\ workflow.backup_path = NoPath
          /\ UNCHANGED training_disk
          /\ workflow' = [workflow EXCEPT !.result = "False"]
       \/ /\ workflow.backup_path # NoPath
          /\ training_disk' \in rollback(training_disk, workflow.backup_path)
          /\ workflow' = [workflow EXCEPT !.result = "False"]
       \/ /\ workflow.backup_path # NoPath
          /\ training_disk' \in rollback_raised(training_disk, workflow.backup_path)
          /\ workflow' = [workflow EXCEPT !.result = "raised"]
    /\ pc' = "returned"
    /\ TrainingUnchanged

NextTraining ==
    Run \/ BackupModel \/ ValidateTrainingData \/ TrainModel \/ ReplaceModel \/ Rollback

SpecTraining == InitTraining /\ [][NextTraining]_vars

\* run has returned False, and there was a model when it was called
RunFailed ==
    /\ mode = "training"
    /\ pc = "returned"
    /\ workflow.result = "False"
    /\ IsModel(workflow.before)

\* the model directory holds a model that run has made
HoldsNewModel ==
    /\ mode = "training"
    /\ IsModel(training_disk.model)
    /\ IsModel(workflow.before)
    /\ training_disk.model.version > workflow.before.version

\* C25: the training workflow is safe on failure: whenever
\* ModelTrainingWorkflow.run returns False (backup, validation, training or
\* replacement failed at any step), the model directory holds the same model
\* as before run was called, and the model directory is replaced by the new
\* model only after training has completed without error.
C25_FailedRunKeepsTheModel ==
    /\ RunFailed => training_disk.model = workflow.before
    /\ HoldsNewModel => workflow.trained

\* the same for the first run on a workflow object, the run of the command line
FirstRunKeepsTheModel ==
    /\ (RunFailed /\ workflow.runs = 1) => training_disk.model = workflow.before
    /\ HoldsNewModel => workflow.trained

-----------------------------------------------------------------------------
(* core/normalization/clean_canon_models.py *)

\* re.sub(r'[^a-zA-Z0-9]', '', model_name).lower()
RECURSIVE clean_model_name(_)
clean_model_name(model_name) ==
    IF model_name = "" THEN ""
    ELSE LET c == SubSeq(model_name, 1, 1)
             rest == clean_model_name(SubSeq(model_name, 2, Len(model_name)))
         IN IF IsAlnum(c) THEN LowerChar(c) \o rest ELSE rest

\* the body of the loop of clean_canon_file: the line that is written for a
\* line of the file (a line is kept without its line end)
CleanedLine(line) ==
    LET raw == Strip(line)
        rewritten(at) ==
            LET original == Strip(Slice(raw, 0, at))
                canonical == Strip(Slice(raw, at + 2, Len(raw)))
                cleaned_left == clean_model_name(original)
            IN IF cleaned_left = "" THEN line
               ELSE cleaned_left \o " -> " \o canonical
    IN IF raw = "" \/ StartsWith(raw, "#") THEN line
       ELSE IF ~Contains(raw, "->") THEN line
       ELSE rewritten(FindFirst(raw, "->"))

\* mapping lines with a hyphen, a blank or nothing but punctuation in the
\* original name, and one that is clean already
CleanLines ==
    <<"US-5000 -> us5000", "US5000 -> us5000b", "LXP LB -> lxp", "--- -> dash",
      "a48100 -> a48100">>

\* canon_models.txt before the cleaning: absent, or some of the lines
CleanFiles ==
    {[exists |-> FALSE, readable |-> FALSE, lines |-> <<>>]}
    \cup {[exists |-> TRUE, readable |-> TRUE, lines |-> CanonHeader \o l] :
             l \in SubSeqsOf(CleanLines)}

\* the model names normalize_model is asked for after the cleaning
CleanNames == {"US-5000", "us5000", "LXP LB", "lxplb", "---", "A48100"}

\* the registry as a process has loaded it from the file before the cleaning
LoadedFrom(file) ==
    IF file.exists THEN Loaded(load_canonical_models(file.lines)) ELSE Unloaded

InitClean ==
    /\ mode = "clean"
    /\ pc = "input"
    /\ text = <<>>
    /\ RequestIdle
    /\ text_segments = <<>>
    /\ sorted_results = <<>>
    /\ canon_file \in CleanFiles
    /\ metadata_file = Unset
    /\ canon_cache = LoadedFrom(canon_file)
    /\ metadata_cache = Unset
    /\ lookup = NoCall
    /\ ThreadsIdle
    /\ raw_text = <<>>
    /\ canon_backup = Unset
    /\ training_disk = Unset
    /\ workflow = Unset

\* clean_canon_file(input_file, create_backup): a missing file is reported
\* and left alone
CleanCanonFile ==
    /\ mode = "clean"
    /\ pc = "input"
    /\ \E create_backup \in BOOLEAN :
           IF ~canon_file.exists THEN UNCHANGED <<canon_file, canon_backup>>
           ELSE /\ canon_backup' = (IF create_backup THEN canon_file ELSE canon_backup)
                /\ canon_file' =
                       [canon_file EXCEPT
                           !.lines = [i \in DOMAIN @ |-> CleanedLine(@[i])]]
    /\ pc' = "cleaned"
    /\ UNCHANGED <<mode, text, request_vars, text_segments, sorted_results,
                   metadata_file, canon_cache, metadata_cache, lookup, thread_vars,
                   raw_text, training_disk, workflow>>

\* normalize_model(model_name) in a process that starts after the cleaning
\* and loads the registry from the file the cleaning has left
NormalizeAfterCleaning ==
    /\ mode = "clean"
    /\ pc = "cleaned"
    /\ \E model_name \in CleanNames :
           lookup' =
               IF ~canon_file.exists
               THEN [NoCall EXCEPT !.fn = "normalize_model", !.arg = model_name,
                                   !.raised = "FileNotFoundError"]
               ELSE [NoCall EXCEPT !.fn = "normalize_model", !.arg = model_name,
                                   !.value = normalize_model_with(
                                                 load_canonical_models(canon_file.lines),
                                                 model_name)]
    /\ pc' = (IF canon_file.exists THEN "done" ELSE "raised")
    /\ UNCHANGED <<mode, text, request_vars, text_segments, sorted_results,
                   canon_file, metadata_file, canon_cache, metadata_cache, thread_vars,
                   script_vars>>

NextClean == CleanCanonFile \/ NormalizeAfterCleaning

SpecClean == InitClean /\ [][NextClean]_vars

\* the registry before the cleaning, and what normalize_model answered from it
Before == canon_cache.entries

ResolvedBefore(model_name) == normalize_model_with(Before, model_name)

\* two original names with different canonical names that the cleaning
\* writes under one key
MergedNames ==
    {pair \in (DOMAIN Before) \X (DOMAIN Before) :
        /\ pair[1] # pair[2]
        /\ clean_model_name(pair[1]) # ""
        /\ clean_model_name(pair[1]) = clean_model_name(pair[2])
        /\ Before[pair[1]] # Before[pair[2]]}

AskedAfterCleaning == mode = "clean" /\ pc = "done"

\* C30: cleaning the canonical-model file preserves resolution: every model
\* text that normalize_model resolved to a canonical name before
\* clean_canon_file rewrote the file resolves to the same canonical name from
\* the rewritten file, and two different original names are never merged onto
\* one key with different canonical names.
C30_CleaningPreservesResolution ==
    AskedAfterCleaning =>
        /\ ResolvedBefore(lookup.arg) # None => lookup.value = ResolvedBefore(lookup.arg)
        /\ MergedNames = {}

\* the same for the names that are their own cleaned form, in a file in which
\* no other name is cleaned to them
CleanNamesStillResolve ==
    (/\ AskedAfterCleaning
     /\ ResolvedBefore(lookup.arg) # None
     /\ clean_model_name(lookup.arg) = LowerWord(Strip(lookup.arg))
     /\ \A k \in DOMAIN Before :
            clean_model_name(k) = clean_model_name(lookup.arg)
                => Before[k] = ResolvedBefore(lookup.arg))
        => lookup.value = ResolvedBefore(lookup.arg)

====
